---- MODULE Spec2Model ----
(***************************************************************************)
(* State-machine model of the CloudIt gallery client (src/unnamed/part_001, *)
(* the App component): navigation state and browser history, the upload    *)
(* and delete handlers with their re-fetches, the view-transition and      *)
(* success timers, and the remote media API as an environment; and of the  *)
(* multi-attempt uploader of the earlier App (src/unnamed/part_000).       *)
(*                                                                         *)
(* Conventions.  JavaScript null / "" / undefined are modelled by the      *)
(* falsy values NoFolder, NullPhoto and "".  Photo ids are tuples of       *)
(* strings: <<n>> for String(n), <<n, i>> for `${n}-${i}` and              *)
(* <<"uuid", b, i, k>> for a crypto.randomUUID() value.  Each asynchronous *)
(* handler that is suspended at an await occupies one slot of ops.         *)
(***************************************************************************)
EXTENDS Integers, Sequences, FiniteSets, TLC

\* ------------------------------------------------------------------ bounds
MaxOps == 2        \* handlers suspended at an await at the same time
MaxUserOps == 4    \* user / browser events in one behaviour of Spec
MaxNavOps == 5     \* user / browser events in one behaviour of SpecNav
MaxFiles == 2      \* files in one selection
MaxMutations == 1  \* uploads and deletes in one behaviour

\* --------------------------------------------------------------- constants
ALL_PHOTOS == "allPhotos"
FOLDERS == "folders"
TABS == {ALL_PHOTOS, FOLDERS}

NoFolder == "<null>"
FolderNames == {"A", "B"}
NullPhoto == [id |-> <<>>, statusId |-> "", url |-> "", folder |-> ""]

TransitionDelay == 300
SuccessDelay == 3000

ErrImagesOnly == "Please select image files only."
ErrIdMissing == "Could not delete this image because id is missing."
ErrDelete == "Delete failed. Please try again."
ErrUpload == "Upload failed. Please try again."
ErrFolders == "Could not load folders. Please try again."
ErrFolder == "Could not load this folder. Please try again."
ErrPhotos == "Could not load photos. Please try again."
BackendMessage == "backend message"

\* success messages are tuples so that the folder name can be part of one
MsgUploaded == <<"Your photos were uploaded.">>
MsgDeleted == <<"Image deleted successfully.">>
MsgUploadedTo(f) == <<"Uploaded to folder", f>>
NoMessage == <<>>

\* ----------------------------------------------------------------- helpers
Range(s) == {s[i] : i \in DOMAIN s}

Truthy(str) == str # ""

Or(a, b) == IF Truthy(a) THEN a ELSE b

Numerals == <<"0", "1", "2", "3", "4", "5", "6", "7", "8", "9", "10", "11", "12",
              "13", "14", "15", "16", "17", "18", "19", "20", "21", "22", "23", "24">>

\* String(n) of a small number
String(n) == Numerals[n + 1]

Min(S) == CHOOSE x \in S : \A y \in S : x <= y

\* String.prototype.trim on the strings that occur as folder names
Trim(str) ==
  CASE str = " A" -> "A"
    [] str = "A " -> "A"
    [] str = " N " -> "N"
    [] str = "  " -> ""
    [] OTHER -> str

\* ------------------------------------------------------- payload normaliser
\* A payload is [isArray, items]; an item is
\*   [id, url, preview_url, folder, hasMedia, media_attachments]
\* and an attachment is [isString, tokens, id, type, url, preview_url], where
\* tokens is the text of a string attachment as its key=value tokens in order.

\* key contains the text "K=" at its end: "preview_url=" also matches /url=/
KeyMatches(key, K) == key = K \/ (K = "url" /\ key = "preview_url")

\* raw.match(/K=([^,\]\s]+)/)?.[1], "" when there is no match
RegexValue(raw, K) ==
  LET hits == {i \in DOMAIN raw : KeyMatches(raw[i].key, K) /\ raw[i].val # ""}
  IN IF hits = {} THEN "" ELSE raw[Min(hits)].val

NotNull(v) == IF v = "null" THEN "" ELSE v

parseAttachmentString(raw) ==
  [isString |-> FALSE, tokens |-> <<>>,
   id |-> RegexValue(raw, "id"),
   type |-> NotNull(RegexValue(raw, "type")),
   url |-> NotNull(RegexValue(raw, "url")),
   preview_url |-> NotNull(RegexValue(raw, "preview_url"))]

toAttachment(attachment) ==
  IF attachment.isString THEN parseAttachmentString(attachment.tokens) ELSE attachment

\* crypto.randomUUID(): a value no other call returns; base names the call of
\* normalizePhotos, i and k the position inside the payload
RandomUUID(base, i, k) == <<"uuid", String(base), String(i), String(k)>>

\* mutant of GroupedPhotos: attachments of every type are kept
GroupedPhotosAnyType(item, i, base) ==
  LET parsed == [k \in DOMAIN item.media_attachments |-> toAttachment(item.media_attachments[k])]
      mapped == [k \in DOMAIN parsed |->
                  [id |-> IF Truthy(item.id) THEN <<item.id, String(k - 1)>>
                                             ELSE RandomUUID(base, i, k),
                   statusId |-> Or(item.id, parsed[k].id),
                   url |-> Or(parsed[k].preview_url, parsed[k].url),
                   folder |-> item.folder]]
  IN SelectSeq(mapped, LAMBDA photo : Truthy(photo.url))

GroupedPhotos(item, i, base) ==
  LET parsed == [k \in DOMAIN item.media_attachments |-> toAttachment(item.media_attachments[k])]
      kept == SelectSeq(parsed, LAMBDA a : a.type = "" \/ a.type = "image")
      mapped == [k \in DOMAIN kept |->
                  [id |-> IF Truthy(item.id) THEN <<item.id, String(k - 1)>>
                                             ELSE RandomUUID(base, i, k),
                   statusId |-> Or(item.id, kept[k].id),
                   url |-> Or(kept[k].preview_url, kept[k].url),
                   folder |-> item.folder]]
  IN SelectSeq(mapped, LAMBDA photo : Truthy(photo.url))

FlatPhotos(item, i, base) ==
  SelectSeq(<<[id |-> IF Truthy(item.id) THEN <<item.id>> ELSE RandomUUID(base, i, 0),
               statusId |-> item.id,
               url |-> Or(item.url, item.preview_url),
               folder |-> item.folder]>>,
            LAMBDA photo : Truthy(photo.url))

ItemPhotos(item, i, base) ==
  IF item.hasMedia THEN GroupedPhotos(item, i, base) ELSE FlatPhotos(item, i, base)

RECURSIVE FlatMapItems(_, _, _)
FlatMapItems(items, i, base) ==
  IF i > Len(items) THEN <<>>
  ELSE ItemPhotos(items[i], i, base) \o FlatMapItems(items, i + 1, base)

\* mutant of normalizePhotos: the Array.isArray check is left out
normalizePhotosUnchecked(payload, base) == FlatMapItems(payload.items, 1, base)

normalizePhotos(payload, base) ==
  IF ~payload.isArray THEN <<>> ELSE FlatMapItems(payload.items, 1, base)

\* ------------------------------------------------------------------- state
VARIABLES
  photos, folders, activeTab, selectedFolder, selectedFolderPhotos,
  loading, viewLoading, error, successMessage, activePhoto, deletingPhotoId,
  transitionTimeout,   \* the pending transition timers, in the order they will fire
  successTimeout,      \* the pending success auto-clear timers, in that order
  popStateRef,
  hist, cursor,        \* window.history: the entries' states and the current entry
  srv, srvFolders, nextId,   \* remote API: statuses, folder names, next status id
  ops,                 \* the handlers suspended at an await
  userOps,             \* number of user / browser events so far
  mutOps,              \* number of uploads and deletes among them
  lastMutation,        \* history variable: the last upload or delete the user asked for
  lastKey,             \* history variable: the last Prev / Next of the lightbox
  folderStatus,        \* history variable: [caller, outcome] of the last folder listing
  responseData,        \* response.data of the list request of SpecNormalize / SpecFolderIndex
  sfpSource,           \* history variable: which write produced selectedFolderPhotos
  uploadOps,           \* part_000: the handleFileChange calls suspended at an await
  uploadPage           \* part_000: error, viewLoading, and the last call that ended

appVars == <<photos, folders, activeTab, selectedFolder, selectedFolderPhotos,
             loading, viewLoading, error, successMessage, activePhoto,
             deletingPhotoId, transitionTimeout, successTimeout, popStateRef>>
histVars == <<hist, cursor>>
srvVars == <<srv, srvFolders, nextId>>
vars == <<appVars, histVars, srvVars, ops, userOps, mutOps, lastMutation, sfpSource,
          responseData, lastKey, folderStatus, uploadOps, uploadPage>>

Slots == 1..MaxOps

NoMutation == [kind |-> "none", photo |-> NullPhoto, files |-> <<>>, folder |-> NoFolder]

\* no Prev / Next so far; from is activePhoto when the button was pressed
NoKey == [key |-> "none", from |-> NullPhoto]

NoListing == [caller |-> "none", outcome |-> "none"]

\* part_000: no error; otherwise the rejection of a request, with the message
\* of its response body ("" when the body carries none)
NoError == [request |-> "none", attempt |-> 0, message |-> ""]

\* part_000: a handleFileChange call that is not running
IdleUpload == [pc |-> "idle", files |-> <<>>, file |-> 0, attempt |-> 0,
               lastError |-> NoError, posts |-> <<>>]

\* part_000: no handleFileChange call has ended so far
NoUpload == [files |-> <<>>, file |-> 0, posts |-> <<>>, caught |-> NoError,
             result |-> "none"]

IdleOp == [kind |-> "idle", pc |-> "", photo |-> NullPhoto, folder |-> NoFolder,
           files |-> <<>>, posted |-> <<>>, pending |-> {}, rejected |-> FALSE]

\* ------------------------------------------------------------- remote API
ImageAttachment == [isString |-> FALSE, tokens |-> <<>>, id |-> "", type |-> "image",
                    url |-> "u", preview_url |-> ""]

\* a status as the server stores an upload: one image attachment
NewStatus(id, folder) ==
  [id |-> id, url |-> "", preview_url |-> "", folder |-> folder,
   hasMedia |-> TRUE, media_attachments |-> <<ImageAttachment>>]

FlatItem(id, folder) ==
  [id |-> id, url |-> "u", preview_url |-> "", folder |-> folder,
   hasMedia |-> FALSE, media_attachments |-> <<>>]

InitialStatuses == <<NewStatus("1", "A"), FlatItem("2", "B"), FlatItem("", "")>>
InitialFolders == <<"A", "B">>
FirstNewId == Len(InitialStatuses)

\* GET /statuses
ListAll(statuses) == [isArray |-> TRUE, items |-> statuses]

\* GET /statuses/{folder}
ListFolder(statuses, folder) ==
  [isArray |-> TRUE, items |-> SelectSeq(statuses, LAMBDA item : item.folder = folder)]

\* POST /api/upload and /api/upload/{folder}
Stored(statuses, id, folder) ==
  Append(statuses, NewStatus(String(id), IF folder = NoFolder THEN "" ELSE folder))

\* DELETE /delete/{statusId}
Deleted(statuses, statusId) == SelectSeq(statuses, LAMBDA item : item.id # statusId)

Outcomes == {"ok", "err", "errmsg"}

\* err?.response?.data?.message || err?.response?.data?.error
BackendOr(outcome, fallback) == IF outcome = "errmsg" THEN BackendMessage ELSE fallback

\* the App after construction
\* the App component after its first render
InitPage ==
  /\ photos = <<>>
  /\ folders = <<>>
  /\ activeTab = ALL_PHOTOS
  /\ selectedFolder = NoFolder
  /\ selectedFolderPhotos = <<>>
  /\ loading = TRUE
  /\ viewLoading = FALSE
  /\ error = ""
  /\ successMessage = NoMessage
  /\ activePhoto = NullPhoto
  /\ deletingPhotoId = <<>>
  /\ transitionTimeout = <<>>
  /\ successTimeout = <<>>
  /\ popStateRef = FALSE
  /\ nextId = FirstNewId
  /\ ops = [s \in Slots |-> IdleOp]
  /\ userOps = 0
  /\ mutOps = 0
  /\ lastMutation = NoMutation
  /\ lastKey = NoKey
  /\ folderStatus = NoListing
  /\ sfpSource = "init"
  /\ uploadOps = [s \in Slots |-> IdleUpload]
  /\ uploadPage = [error |-> "", viewLoading |-> FALSE, refreshed |-> FALSE,
                   ended |-> NoUpload]

\* window.history.replaceState(entry, ""): the state of the current entry
replaceState(h, c, entry) == [h EXCEPT ![c] = entry]

\* the page opened in a new tab: its entry is the only one, and the mount
\* effect has replaced its state
InitClient ==
  /\ InitPage
  /\ hist = replaceState(<<[tab |-> "", folder |-> NoFolder]>>, 1,
                         [tab |-> ALL_PHOTOS, folder |-> NoFolder])
  /\ cursor = 1

Init ==
  /\ InitClient
  /\ srv = InitialStatuses
  /\ srvFolders = InitialFolders
  /\ responseData = ListAll(InitialStatuses)

\* ------------------------------------------------------------ derived values
Falsy(folder) == folder = NoFolder \/ folder = ""

OrNull(folder) == IF Falsy(folder) THEN NoFolder ELSE folder

\* the counts with photo.folder taken as it is, not trimmed
folderCountsUntrimmed ==
  LET counted == {photos[i].folder : i \in DOMAIN photos} \ {""}
  IN [n \in counted \cup Range(folders) |->
        IF n \in counted
        THEN Cardinality({i \in DOMAIN photos : photos[i].folder = n})
        ELSE 0]

\* photos.reduce over the trimmed non-empty folders, then 0 for every name of
\* folders that is not yet a key
folderCounts ==
  LET counted == {Trim(photos[i].folder) : i \in DOMAIN photos} \ {""}
  IN [n \in counted \cup Range(folders) |->
        IF n \in counted
        THEN Cardinality({i \in DOMAIN photos : Trim(photos[i].folder) = n})
        ELSE 0]

filteredFolderPhotos == IF Falsy(selectedFolder) THEN <<>> ELSE selectedFolderPhotos

isBusy == loading \/ viewLoading

currentVisiblePhotos ==
  IF activeTab = FOLDERS /\ ~Falsy(selectedFolder) THEN filteredFolderPhotos ELSE photos

\* findIndex, 0-based, -1 when absent
activePhotoIndex ==
  LET hits == {i \in DOMAIN currentVisiblePhotos : currentVisiblePhotos[i].id = activePhoto.id}
  IN IF activePhoto = NullPhoto \/ hits = {} THEN -1 ELSE Min(hits) - 1

\* the lightbox is a fixed full-screen layer above the page: while it is open a
\* click reaches the lightbox, not the header, the tabs or the grids
PageClickable == activePhoto = NullPhoto

\* render conditions of the grids
AllPhotosGridShown == ~isBusy /\ error = "" /\ activeTab = ALL_PHOTOS
FoldersViewShown == ~isBusy /\ error = "" /\ activeTab = FOLDERS
FolderGridShown == FoldersViewShown /\ ~Falsy(selectedFolder)
FolderCardsShown == FoldersViewShown /\ Falsy(selectedFolder)

\* the photo cards on screen
ShownCards ==
  IF AllPhotosGridShown THEN Range(photos)
  ELSE IF FolderGridShown THEN Range(filteredFolderPhotos)
  ELSE {}

\* ------------------------------------------------------------ browser history
PushState(h, c, entry) == [hist |-> Append(SubSeq(h, 1, c), entry), cursor |-> c + 1]

\* mutant of PushEffect: the comparison with the current entry is left out
PushEffectNoCompare(tab, folder, ref, h, c) ==
  IF ref
  THEN [hist |-> h, cursor |-> c]
  ELSE PushState(h, c, [tab |-> tab, folder |-> OrNull(folder)])

\* mutant of PushEffect: the entry is written with replaceState
PushEffectReplaces(tab, folder, ref, h, c) ==
  LET nextState == [tab |-> tab, folder |-> OrNull(folder)]
  IN IF ref \/ h[c] = nextState
     THEN [hist |-> h, cursor |-> c]
     ELSE [hist |-> [h EXCEPT ![c] = nextState], cursor |-> c]

\* the effect on [activeTab, selectedFolder]; ref is popStateRef.current when it runs
PushEffect(tab, folder, ref, h, c) ==
  LET nextState == [tab |-> tab, folder |-> OrNull(folder)]
  IN IF ref \/ h[c] = nextState
     THEN [hist |-> h, cursor |-> c]
     ELSE PushState(h, c, nextState)

\* effects run after the render that follows a handler step, and this one
\* only when one of its dependencies changed
HistoryAfterRender(tab, folder, ref, h, c) ==
  IF tab = activeTab /\ folder = selectedFolder
  THEN [hist |-> h, cursor |-> c]
  ELSE PushEffect(tab, folder, ref, h, c)

Rendered(ref, c) ==
  LET r == HistoryAfterRender(activeTab', selectedFolder', ref, hist, c)
  IN hist' = r.hist /\ cursor' = r.cursor

\* ------------------------------------------------------------------- fetches
IsUuid(id) == Len(id) = 4

UsedBases ==
  {p.id[2] : p \in {q \in Range(photos) \cup Range(selectedFolderPhotos) \cup {activePhoto}
                           \cup {ops[s].photo : s \in Slots} : IsUuid(q.id)}}

\* names the next call of normalizePhotos: its random ids differ from all ids in use
FreshBase == Min({b \in 1..9 : String(b) \notin UsedBases})

\* response.data of fetchAllPhotos, normalised
FetchedAllPhotos == normalizePhotos(ListAll(srv), FreshBase)

\* folder names of fetchFolders: strings only, duplicates removed
RECURSIVE Unique(_)
Unique(names) ==
  IF names = <<>> THEN <<>>
  ELSE LET front == Unique(SubSeq(names, 1, Len(names) - 1))
           last == names[Len(names)]
       IN IF last \in Range(front) THEN front ELSE Append(front, last)

FetchedFolders == Unique(srvFolders)

\* response of fetchFolderPhotos(folderName), normalised, folder defaulted
FetchedFolderPhotos(folderName) ==
  LET normalized == normalizePhotos(ListFolder(srv, folderName), FreshBase)
  IN [i \in DOMAIN normalized |->
        [normalized[i] EXCEPT !.folder = Or(normalized[i].folder, folderName)]]

\* a folder listing may answer 404 when the folder holds no photo
FolderOutcomes(folderName) ==
  Outcomes \cup (IF ListFolder(srv, folderName).items = <<>> THEN {"404"} ELSE {})

FreeSlots == {s \in Slots : ops[s].kind = "idle"}
CanStart == FreeSlots # {}
Started(op) == ops' = [ops EXCEPT ![Min(FreeSlots)] = op]
Ended(s) == ops' = [ops EXCEPT ![s] = IdleOp]

\* --------------------------------------------------------------------- timers
\* The timers of one ref have the same delay, so they fire in the order they were
\* set and the one the ref names, the last one set, is pending exactly when it
\* is the last of the sequence.  A timer is [callback, restarts]; restarts is a
\* history field: how many pending timers were cancelled in a row before it.

\* mutant of clearTimeout: the pending timer is left alone
clearTimeoutNoop(timers) == timers

\* if (ref.current) clearTimeout(ref.current)
clearTimeout(timers) ==
  IF timers = <<>> THEN <<>> ELSE SubSeq(timers, 1, Len(timers) - 1)

Restarts(timers) == IF timers = <<>> THEN 0 ELSE timers[Len(timers)].restarts + 1

\* ref.current = setTimeout(callback, delay), after the clearTimeout
Restarted(timers, callback) ==
  Append(clearTimeout(timers), [callback |-> callback, restarts |-> Restarts(timers)])

\* ------------------------------------------------------------ view transition
withViewTransition(update) ==
  /\ transitionTimeout' = Restarted(transitionTimeout, update)
  /\ viewLoading' = TRUE

\* All Photos tab onClick
SelectAllPhotos ==
  /\ PageClickable
  /\ withViewTransition("allPhotos")
  /\ UNCHANGED <<photos, folders, activeTab, selectedFolder, selectedFolderPhotos,
                 loading, error, successMessage, activePhoto, deletingPhotoId,
                 successTimeout, popStateRef, histVars, srvVars, ops, sfpSource>>

\* Back to Folders onClick
CloseFolder ==
  /\ PageClickable
  /\ FolderGridShown
  /\ withViewTransition("closeFolder")
  /\ UNCHANGED <<photos, folders, activeTab, selectedFolder, selectedFolderPhotos,
                 loading, error, successMessage, activePhoto, deletingPhotoId,
                 successTimeout, popStateRef, histVars, srvVars, ops, sfpSource>>

\* mutant of TransitionTimerFires: the callback does not clear viewLoading
TransitionTimerKeepsBusy ==
  /\ transitionTimeout # <<>>
  /\ IF Head(transitionTimeout).callback = "allPhotos"
     THEN activeTab' = ALL_PHOTOS /\ selectedFolder' = NoFolder
     ELSE selectedFolder' = NoFolder /\ UNCHANGED activeTab
  /\ transitionTimeout' = Tail(transitionTimeout)
  /\ Rendered(popStateRef, cursor)
  /\ UNCHANGED <<photos, folders, selectedFolderPhotos, loading, viewLoading, error,
                 successMessage, activePhoto, deletingPhotoId, successTimeout,
                 popStateRef, srvVars, ops, sfpSource>>

\* the setTimeout callback of withViewTransition
TransitionTimerFires ==
  /\ transitionTimeout # <<>>
  /\ IF Head(transitionTimeout).callback = "allPhotos"
     THEN activeTab' = ALL_PHOTOS /\ selectedFolder' = NoFolder
     ELSE selectedFolder' = NoFolder /\ UNCHANGED activeTab
  /\ viewLoading' = FALSE
  /\ transitionTimeout' = Tail(transitionTimeout)
  /\ Rendered(popStateRef, cursor)
  /\ UNCHANGED <<photos, folders, selectedFolderPhotos, loading, error, successMessage,
                 activePhoto, deletingPhotoId, successTimeout, popStateRef, srvVars,
                 ops, sfpSource>>

\* ------------------------------------------------------------------- mount
\* fetchPhotos of the mount effect completes
MountFetchDone(outcome) ==
  /\ loading
  /\ IF outcome = "ok"
     THEN photos' = FetchedAllPhotos /\ UNCHANGED error
     ELSE error' = ErrPhotos /\ UNCHANGED photos
  /\ loading' = FALSE
  /\ UNCHANGED <<folders, activeTab, selectedFolder, selectedFolderPhotos, viewLoading,
                 successMessage, activePhoto, deletingPhotoId, transitionTimeout,
                 successTimeout, popStateRef, histVars, srvVars, ops, sfpSource>>

\* --------------------------------------------------------------- Folders tab
handleFoldersTabClick ==
  /\ PageClickable
  /\ CanStart
  /\ viewLoading' = TRUE
  /\ error' = ""
  /\ activeTab' = FOLDERS
  /\ selectedFolder' = NoFolder
  /\ Started([IdleOp EXCEPT !.kind = "foldersTab", !.pc = "folders"])
  /\ Rendered(popStateRef, cursor)
  /\ UNCHANGED <<photos, folders, selectedFolderPhotos, loading, successMessage,
                 activePhoto, deletingPhotoId, transitionTimeout, successTimeout,
                 popStateRef, srvVars, sfpSource>>

FoldersTabDone(s, outcome) ==
  /\ ops[s].kind = "foldersTab"
  /\ IF outcome = "ok"
     THEN folders' = FetchedFolders /\ UNCHANGED error
     ELSE error' = BackendOr(outcome, ErrFolders) /\ UNCHANGED folders
  /\ viewLoading' = FALSE
  /\ Ended(s)
  /\ UNCHANGED <<photos, activeTab, selectedFolder, selectedFolderPhotos, loading,
                 successMessage, activePhoto, deletingPhotoId, transitionTimeout,
                 successTimeout, popStateRef, histVars, srvVars, sfpSource>>

\* --------------------------------------------------------------- folder card
\* FolderCard onClick
OpenFolder(name) ==
  /\ PageClickable
  /\ CanStart
  /\ FolderCardsShown
  /\ name \in DOMAIN folderCounts
  /\ viewLoading' = TRUE
  /\ error' = ""
  /\ Started([IdleOp EXCEPT !.kind = "openFolder", !.pc = "folderPhotos", !.folder = name])
  /\ UNCHANGED <<photos, folders, activeTab, selectedFolder, selectedFolderPhotos,
                 loading, successMessage, activePhoto, deletingPhotoId,
                 transitionTimeout, successTimeout, popStateRef, histVars, srvVars,
                 sfpSource>>

\* what the completion of fetchFolderPhotos(folderName) writes
FolderPhotosWritten(folderName, outcome) ==
  IF outcome = "ok"
  THEN selectedFolderPhotos' = FetchedFolderPhotos(folderName) /\ sfpSource' = folderName
  ELSE IF outcome = "404"
  THEN selectedFolderPhotos' = <<>> /\ sfpSource' = folderName
  ELSE UNCHANGED <<selectedFolderPhotos, sfpSource>>

\* a folder listing requested by caller was answered
Listed(caller, outcome) == folderStatus' = [caller |-> caller, outcome |-> outcome]

\* mutant of Throws: fetchFolderPhotos swallows every error, not only the 404
ThrowsNever(outcome) == FALSE

\* mutant of Throws: fetchFolderPhotos rethrows the 404 as well
ThrowsAlsoNotFound(outcome) == outcome \in {"err", "errmsg", "404"}

Throws(outcome) == outcome \in {"err", "errmsg"}

OpenFolderDone(s, outcome) ==
  /\ ops[s].kind = "openFolder"
  /\ outcome \in FolderOutcomes(ops[s].folder)
  /\ FolderPhotosWritten(ops[s].folder, outcome)
  /\ Listed("openFolder", outcome)
  /\ IF Throws(outcome)
     THEN error' = BackendOr(outcome, ErrFolder) /\ UNCHANGED selectedFolder
     ELSE selectedFolder' = ops[s].folder /\ UNCHANGED error
  /\ viewLoading' = FALSE
  /\ Ended(s)
  /\ UNCHANGED <<photos, folders, activeTab, loading, successMessage, activePhoto,
                 deletingPhotoId, transitionTimeout, successTimeout, popStateRef,
                 srvVars>>
  /\ Rendered(popStateRef, cursor)

\* ------------------------------------------------------------------ popstate
\* the browser moves the current entry by delta and fires popstate
handlePopState(delta) ==
  LET target == cursor + delta
      nextTab == hist[target].tab
      nextFolder == OrNull(hist[target].folder)
  IN /\ target \in DOMAIN hist
     /\ nextTab = FOLDERS => FreeSlots # {}
     /\ activeTab' = nextTab
     /\ selectedFolder' = nextFolder
     /\ activePhoto' = NullPhoto
     \* syncFromHistory runs to its first await, or to its end
     /\ IF nextTab = FOLDERS
        THEN /\ popStateRef' = TRUE
             /\ Started([IdleOp EXCEPT !.kind = "replay", !.pc = "folders",
                                       !.folder = nextFolder])
        ELSE /\ popStateRef' = FALSE
             /\ UNCHANGED ops
     /\ Rendered(popStateRef', target)
        /\ UNCHANGED <<photos, folders, selectedFolderPhotos, loading, viewLoading, error,
                    successMessage, deletingPhotoId, transitionTimeout, successTimeout,
                    srvVars, sfpSource>>

\* await fetchFolders() of syncFromHistory completes
ReplayFoldersDone(s, outcome) ==
  /\ ops[s].kind = "replay" /\ ops[s].pc = "folders"
  /\ IF outcome = "ok" THEN folders' = FetchedFolders ELSE UNCHANGED folders
  /\ IF outcome = "ok" /\ ops[s].folder # NoFolder
     THEN /\ ops' = [ops EXCEPT ![s].pc = "folderPhotos"]
          /\ UNCHANGED <<selectedFolderPhotos, sfpSource, popStateRef>>
     ELSE /\ IF outcome = "ok"
             THEN selectedFolderPhotos' = <<>> /\ sfpSource' = "replay"
             ELSE UNCHANGED <<selectedFolderPhotos, sfpSource>>
          /\ popStateRef' = FALSE
          /\ Ended(s)
  /\ UNCHANGED <<photos, activeTab, selectedFolder, loading, viewLoading, error,
                 successMessage, activePhoto, deletingPhotoId, transitionTimeout,
                 successTimeout, histVars, srvVars>>

\* await fetchFolderPhotos(nextFolder) of syncFromHistory completes
ReplayFolderPhotosDone(s, outcome) ==
  /\ ops[s].kind = "replay" /\ ops[s].pc = "folderPhotos"
  /\ outcome \in FolderOutcomes(ops[s].folder)
  /\ FolderPhotosWritten(ops[s].folder, outcome)
  /\ Listed("replay", outcome)
  /\ popStateRef' = FALSE
  /\ Ended(s)
  /\ UNCHANGED <<photos, folders, activeTab, selectedFolder, loading, viewLoading, error,
                 successMessage, activePhoto, deletingPhotoId, transitionTimeout,
                 successTimeout, histVars, srvVars>>

\* ------------------------------------------------------------------ lightbox
\* PhotoCard onClick: setActivePhoto(photo)
OpenPhoto(photo) ==
  /\ PageClickable
  /\ photo \in ShownCards
  /\ activePhoto' = photo
  /\ UNCHANGED <<photos, folders, activeTab, selectedFolder, selectedFolderPhotos,
                 loading, viewLoading, error, successMessage, deletingPhotoId,
                 transitionTimeout, successTimeout, popStateRef, histVars, srvVars,
                 ops, sfpSource>>

\* overlay click, Escape, Close: setActivePhoto(null)
ClosePhoto ==
  /\ activePhoto # NullPhoto
  /\ activePhoto' = NullPhoto
  /\ UNCHANGED <<photos, folders, activeTab, selectedFolder, selectedFolderPhotos,
                 loading, viewLoading, error, successMessage, deletingPhotoId,
                 transitionTimeout, successTimeout, popStateRef, histVars, srvVars,
                 ops, sfpSource>>

\* mutant of showNextPhoto: Next on the last element goes round to the first
showNextPhotoWraps ==
  /\ activePhoto # NullPhoto
  /\ activePhoto' = IF activePhotoIndex < 0 THEN activePhoto
                    ELSE IF activePhotoIndex >= Len(currentVisiblePhotos) - 1
                    THEN currentVisiblePhotos[1]
                    ELSE currentVisiblePhotos[activePhotoIndex + 2]
  /\ UNCHANGED <<photos, folders, activeTab, selectedFolder, selectedFolderPhotos,
                 loading, viewLoading, error, successMessage, deletingPhotoId,
                 transitionTimeout, successTimeout, popStateRef, histVars, srvVars,
                 ops, sfpSource>>

showPreviousPhoto ==
  /\ activePhoto # NullPhoto
  /\ activePhoto' = IF activePhotoIndex <= 0
                    THEN activePhoto
                    ELSE currentVisiblePhotos[activePhotoIndex]
  /\ UNCHANGED <<photos, folders, activeTab, selectedFolder, selectedFolderPhotos,
                 loading, viewLoading, error, successMessage, deletingPhotoId,
                 transitionTimeout, successTimeout, popStateRef, histVars, srvVars,
                 ops, sfpSource>>

showNextPhoto ==
  /\ activePhoto # NullPhoto
  /\ activePhoto' = IF activePhotoIndex < 0
                       \/ activePhotoIndex >= Len(currentVisiblePhotos) - 1
                    THEN activePhoto
                    ELSE currentVisiblePhotos[activePhotoIndex + 2]
  /\ UNCHANGED <<photos, folders, activeTab, selectedFolder, selectedFolderPhotos,
                 loading, viewLoading, error, successMessage, deletingPhotoId,
                 transitionTimeout, successTimeout, popStateRef, histVars, srvVars,
                 ops, sfpSource>>

\* ------------------------------------------------------------ success message
\* mutant of showUploadSuccess: the pending auto-clear timer is not cancelled
showUploadSuccessKeepsTimer(message) ==
  /\ successMessage' = message
  /\ successTimeout' = Append(successTimeout,
                              [callback |-> message, restarts |-> Restarts(successTimeout)])

showUploadSuccess(message) ==
  /\ successMessage' = message
  /\ successTimeout' = Restarted(successTimeout, message)

\* the setTimeout callback of showUploadSuccess
SuccessTimerFires ==
  /\ successTimeout # <<>>
  /\ successMessage' = NoMessage
  /\ successTimeout' = Tail(successTimeout)
  /\ UNCHANGED <<photos, folders, activeTab, selectedFolder, selectedFolderPhotos,
                 loading, viewLoading, error, activePhoto, deletingPhotoId,
                 transitionTimeout, popStateRef, histVars, srvVars, ops,
                 sfpSource>>

\* -------------------------------------------------------------------- delete
\* mutant of ReadsAfter: the reads of a global upload, whatever the target
ReadsAfterGlobal(folder) == {"photos", "folders"}

\* the reads of the Promise.all after a mutation
ReadsAfter(folder) ==
  {"photos", "folders"} \cup (IF Falsy(folder) THEN {} ELSE {"folderPhotos"})

\* mutant of StatusIdMissing: the guard is left out
StatusIdNeverMissing(photo) == FALSE

\* if (!statusId)
StatusIdMissing(photo) == ~Truthy(photo.statusId)

handleDeletePhoto(photo) ==
  /\ lastMutation' = [NoMutation EXCEPT !.kind = "delete", !.photo = photo,
                                        !.folder = selectedFolder]
  /\ IF StatusIdMissing(photo)
     THEN /\ error' = ErrIdMissing
          /\ UNCHANGED <<viewLoading, successMessage, deletingPhotoId, ops>>
     ELSE /\ FreeSlots # {}
          /\ viewLoading' = TRUE
          /\ error' = ""
          /\ successMessage' = NoMessage
          /\ deletingPhotoId' = photo.id
          /\ Started([IdleOp EXCEPT !.kind = "delete", !.pc = "deleting",
                                    !.photo = photo, !.folder = selectedFolder])
  /\ UNCHANGED <<photos, folders, activeTab, selectedFolder, selectedFolderPhotos,
                 loading, activePhoto, transitionTimeout, successTimeout, popStateRef,
                 histVars, srvVars, sfpSource>>

\* PhotoCard Delete button
DeleteFromCard(photo) ==
  /\ PageClickable
  /\ photo \in ShownCards
  /\ handleDeletePhoto(photo)

\* lightbox Delete button
DeleteFromLightbox ==
  /\ activePhoto # NullPhoto
  /\ handleDeletePhoto(activePhoto)

\* await axios.delete(...) completes
DeleteDone(s, outcome) ==
  /\ ops[s].kind = "delete" /\ ops[s].pc = "deleting"
  /\ IF outcome = "ok"
     THEN /\ srv' = Deleted(srv, ops[s].photo.statusId)
          /\ activePhoto' = NullPhoto
          /\ ops' = [ops EXCEPT ![s].pc = "reads", ![s].pending = ReadsAfter(ops[s].folder)]
          /\ UNCHANGED <<error, deletingPhotoId, viewLoading>>
     ELSE /\ error' = BackendOr(outcome, ErrDelete)
          /\ deletingPhotoId' = <<>>
          /\ viewLoading' = FALSE
          /\ Ended(s)
          /\ UNCHANGED <<srv, activePhoto>>
  /\ UNCHANGED <<photos, folders, activeTab, selectedFolder, selectedFolderPhotos,
                 loading, successMessage, transitionTimeout, successTimeout,
                 popStateRef, histVars, srvFolders, nextId, sfpSource>>

\* -------------------------------------------------------------------- upload
\* a selection is the sequence of its files' "type starts with image/" flags
FileSelections == UNION {[1..n -> BOOLEAN] : n \in 1..MaxFiles}

\* mutant of ImagesAfter: the file just sent counts as still to send
ImagesFrom(files, k) == {i \in DOMAIN files : i >= k /\ files[i]}

\* mutant of ImagesAfter: the files are not filtered by type
FilesAfter(files, k) == {i \in DOMAIN files : i > k}

\* positions of the image files after position k, in order
ImagesAfter(files, k) == {i \in DOMAIN files : i > k /\ files[i]}

\* handleFileChange / handleFolderFileChange up to the first await; uploadFiles
\* returns without a request when no file is image-typed and the handler goes on
\* to its Promise.all
UploadStarted(files, folder) ==
  /\ CanStart
  /\ lastMutation' = [NoMutation EXCEPT !.kind = "upload", !.files = files,
                                        !.folder = folder]
  /\ viewLoading' = TRUE
  /\ successMessage' = NoMessage
  /\ IF ImagesAfter(files, 0) = {}
     THEN /\ error' = ErrImagesOnly
          /\ Started([IdleOp EXCEPT !.kind = "upload", !.pc = "reads", !.folder = folder,
                                    !.files = files, !.pending = ReadsAfter(folder)])
     ELSE /\ error' = ""
          /\ Started([IdleOp EXCEPT !.kind = "upload", !.pc = "posting", !.folder = folder,
                                    !.files = files,
                                    !.posted = <<Min(ImagesAfter(files, 0))>>])
  /\ UNCHANGED <<photos, folders, activeTab, selectedFolder, selectedFolderPhotos,
                 loading, activePhoto, deletingPhotoId, transitionTimeout,
                 successTimeout, popStateRef, histVars, srvVars, sfpSource>>

handleFileChange(files) ==
  /\ PageClickable
  /\ UploadStarted(files, NoFolder)

handleFolderFileChange(files) ==
  /\ PageClickable
  /\ FolderGridShown
  /\ UploadStarted(files, selectedFolder)

\* await axios.post(endpoint, formData) completes
PostDone(s, outcome) ==
  LET op == ops[s]
      last == op.posted[Len(op.posted)]
      rest == ImagesAfter(op.files, last)
  IN /\ op.kind = "upload" /\ op.pc = "posting"
     /\ IF outcome = "ok"
        THEN /\ srv' = Stored(srv, nextId, op.folder)
             /\ nextId' = nextId + 1
             /\ srvFolders' = IF Falsy(op.folder) \/ op.folder \in Range(srvFolders)
                              THEN srvFolders ELSE Append(srvFolders, op.folder)
             /\ IF rest # {}
                THEN ops' = [ops EXCEPT ![s].posted = Append(op.posted, Min(rest))]
                ELSE ops' = [ops EXCEPT ![s].pc = "reads",
                                        ![s].pending = ReadsAfter(op.folder)]
             /\ UNCHANGED <<error, viewLoading>>
        ELSE /\ error' = BackendOr(outcome, ErrUpload)
             /\ viewLoading' = FALSE
             /\ Ended(s)
             /\ UNCHANGED srvVars
     /\ UNCHANGED <<photos, folders, activeTab, selectedFolder, selectedFolderPhotos,
                    loading, successMessage, activePhoto, deletingPhotoId,
                    transitionTimeout, successTimeout, popStateRef, histVars,
                    sfpSource>>

\* ------------------------------------------------- re-fetches of a Promise.all
SuccessOf(op) ==
  IF op.kind = "delete" THEN MsgDeleted
  ELSE IF Falsy(op.folder) THEN MsgUploaded ELSE MsgUploadedTo(op.folder)

FailureOf(op) == IF op.kind = "delete" THEN ErrDelete ELSE ErrUpload

\* one of fetchAllPhotos / fetchFolders / fetchFolderPhotos of a Promise.all
\* completes; the first rejection runs catch and finally, the last fulfilment
\* (when none was rejected) runs showUploadSuccess and finally
ReadDone(s, read, outcome) ==
  LET op == ops[s]
      left == op.pending \ {read}
      rejects == Throws(outcome) /\ ~op.rejected
      fulfils == left = {} /\ ~op.rejected /\ ~Throws(outcome)
  IN /\ op.kind \in {"delete", "upload"} /\ op.pc = "reads"
     /\ read \in op.pending
     /\ outcome \in (IF read = "folderPhotos" THEN FolderOutcomes(op.folder) ELSE Outcomes)
     /\ IF read = "photos" /\ outcome = "ok"
        THEN photos' = FetchedAllPhotos ELSE UNCHANGED photos
     /\ IF read = "folders" /\ outcome = "ok"
        THEN folders' = FetchedFolders ELSE UNCHANGED folders
     /\ IF read = "folderPhotos"
        THEN FolderPhotosWritten(op.folder, outcome) /\ Listed(op.kind, outcome)
        ELSE UNCHANGED <<selectedFolderPhotos, sfpSource, folderStatus>>
     /\ error' = IF rejects THEN BackendOr(outcome, FailureOf(op)) ELSE error
     /\ IF fulfils
        THEN showUploadSuccess(SuccessOf(op))
        ELSE UNCHANGED <<successMessage, successTimeout>>
     /\ IF rejects \/ fulfils
        THEN /\ viewLoading' = FALSE
             /\ deletingPhotoId' = IF op.kind = "delete" THEN <<>> ELSE deletingPhotoId
        ELSE UNCHANGED <<viewLoading, deletingPhotoId>>
     /\ IF left = {}
        THEN Ended(s)
        ELSE ops' = [ops EXCEPT ![s].pending = left,
                                ![s].rejected = op.rejected \/ Throws(outcome)]
     /\ UNCHANGED <<activeTab, selectedFolder, loading, activePhoto, transitionTimeout,
                    popStateRef, histVars, srvVars>>

\* ------------------------------------------------------------ create folder
PromptInputs == {"N", " N ", "A", "  "}

handleCreateFolder(folderName) ==
  LET trimmedName == Trim(folderName)
  IN /\ PageClickable
     /\ FolderCardsShown
     /\ folders' = IF ~Truthy(trimmedName) \/ trimmedName \in Range(folders)
                   THEN folders ELSE Append(folders, trimmedName)
     /\ UNCHANGED <<photos, activeTab, selectedFolder, selectedFolderPhotos, loading,
                    viewLoading, error, successMessage, activePhoto, deletingPhotoId,
                    transitionTimeout, successTimeout, popStateRef, histVars, srvVars,
                    ops, sfpSource>>

\* ------------------------------------------------------------ specification
\* a user or browser event: at most n of them in one behaviour
User(n) ==
  /\ userOps < n /\ userOps' = userOps + 1
  /\ UNCHANGED <<mutOps, lastMutation, responseData, uploadOps, uploadPage, lastKey, folderStatus>>

\* Prev / Next (button or arrow key) of the lightbox: a user event
Key(n, key) ==
  /\ userOps < n /\ userOps' = userOps + 1
  /\ lastKey' = [key |-> key, from |-> activePhoto]
  /\ UNCHANGED <<mutOps, lastMutation, responseData, uploadOps, uploadPage, folderStatus>>

\* an upload or a delete: a user event, and at most MaxMutations of them
Mutation(n) ==
  /\ userOps < n /\ userOps' = userOps + 1
  /\ mutOps < MaxMutations /\ mutOps' = mutOps + 1
  /\ UNCHANGED <<responseData, uploadOps, uploadPage, lastKey, folderStatus>>

\* the answer to a request that may be a folder listing: not counted
Listing == UNCHANGED <<userOps, mutOps, lastMutation, responseData, uploadOps, uploadPage, lastKey>>

\* any other completion (a response, a timer): not counted
System == Listing /\ UNCHANGED folderStatus

\* every handler of the App
Next ==
  \/ User(MaxUserOps) /\ SelectAllPhotos
  \/ User(MaxUserOps) /\ CloseFolder
  \/ System /\ TransitionTimerFires
  \/ System /\ \E outcome \in {"ok", "err"} : MountFetchDone(outcome)
  \/ User(MaxUserOps) /\ handleFoldersTabClick
  \/ System /\ \E s \in Slots, outcome \in Outcomes : FoldersTabDone(s, outcome)
  \/ User(MaxUserOps) /\ \E name \in FolderNames \cup {"N"} : OpenFolder(name)
  \/ Listing /\ \E s \in Slots, outcome \in Outcomes \cup {"404"} : OpenFolderDone(s, outcome)
  \/ User(MaxUserOps) /\ \E delta \in {-1, 1} : handlePopState(delta)
  \/ System /\ \E s \in Slots, outcome \in Outcomes : ReplayFoldersDone(s, outcome)
  \/ Listing /\ \E s \in Slots, outcome \in Outcomes \cup {"404"} :
                  ReplayFolderPhotosDone(s, outcome)
  \/ User(MaxUserOps) /\ \E photo \in ShownCards : OpenPhoto(photo)
  \/ User(MaxUserOps) /\ ClosePhoto
  \/ Key(MaxUserOps, "previous") /\ showPreviousPhoto
  \/ Key(MaxUserOps, "next") /\ showNextPhoto
  \/ System /\ SuccessTimerFires
  \/ Mutation(MaxUserOps) /\ \E photo \in ShownCards : DeleteFromCard(photo)
  \/ Mutation(MaxUserOps) /\ DeleteFromLightbox
  \/ System /\ \E s \in Slots, outcome \in Outcomes : DeleteDone(s, outcome)
  \/ Mutation(MaxUserOps) /\ \E files \in FileSelections : handleFileChange(files)
  \/ Mutation(MaxUserOps) /\ \E files \in FileSelections : handleFolderFileChange(files)
  \/ System /\ \E s \in Slots, outcome \in Outcomes : PostDone(s, outcome)
  \/ Listing /\ \E s \in Slots, read \in {"photos", "folders", "folderPhotos"},
                  outcome \in Outcomes \cup {"404"} : ReadDone(s, read, outcome)
  \/ User(MaxUserOps) /\ \E folderName \in PromptInputs : handleCreateFolder(folderName)

Spec == Init /\ [][Next]_vars

\* navigation only: tabs, folder cards, browser back / forward, lightbox
NextNav ==
  \/ User(MaxNavOps) /\ SelectAllPhotos
  \/ User(MaxNavOps) /\ CloseFolder
  \/ System /\ TransitionTimerFires
  \/ System /\ \E outcome \in {"ok", "err"} : MountFetchDone(outcome)
  \/ User(MaxNavOps) /\ handleFoldersTabClick
  \/ System /\ \E s \in Slots, outcome \in Outcomes : FoldersTabDone(s, outcome)
  \/ User(MaxNavOps) /\ \E name \in FolderNames : OpenFolder(name)
  \/ Listing /\ \E s \in Slots, outcome \in Outcomes \cup {"404"} : OpenFolderDone(s, outcome)
  \/ User(MaxNavOps) /\ \E delta \in {-1, 1} : handlePopState(delta)
  \/ System /\ \E s \in Slots, outcome \in Outcomes : ReplayFoldersDone(s, outcome)
  \/ Listing /\ \E s \in Slots, outcome \in Outcomes \cup {"404"} :
                  ReplayFolderPhotosDone(s, outcome)
  \/ User(MaxNavOps) /\ \E photo \in ShownCards : OpenPhoto(photo)
  \/ User(MaxNavOps) /\ ClosePhoto

SpecNav == Init /\ [][NextNav]_vars

\* navigation only, and every request succeeds
NextNavOk ==
  \/ User(MaxNavOps) /\ SelectAllPhotos
  \/ User(MaxNavOps) /\ CloseFolder
  \/ System /\ TransitionTimerFires
  \/ System /\ MountFetchDone("ok")
  \/ User(MaxNavOps) /\ handleFoldersTabClick
  \/ System /\ \E s \in Slots : FoldersTabDone(s, "ok")
  \/ User(MaxNavOps) /\ \E name \in FolderNames : OpenFolder(name)
  \/ Listing /\ \E s \in Slots : OpenFolderDone(s, "ok")
  \/ User(MaxNavOps) /\ \E delta \in {-1, 1} : handlePopState(delta)
  \/ System /\ \E s \in Slots : ReplayFoldersDone(s, "ok")
  \/ Listing /\ \E s \in Slots : ReplayFolderPhotosDone(s, "ok")
  \/ User(MaxNavOps) /\ \E photo \in ShownCards : OpenPhoto(photo)
  \/ User(MaxNavOps) /\ ClosePhoto

SpecNavOk == Init /\ [][NextNavOk]_vars

\* ---- claims ----

\* C1: in every reachable state selectedFolder is non-null only when
\* activeTab = FOLDERS.
C1_FolderOnlyInFoldersTab == ~Falsy(selectedFolder) => activeTab = FOLDERS

\* some handler still has the folder's photos to fetch or is waiting for them
RefreshPending(folder) == \E s \in Slots : ops[s].kind # "idle" /\ ops[s].folder = folder

\* C2: whenever selectedFolder = F (non-null) and no fetch for F is pending,
\* selectedFolderPhotos was written by a fetch for F: not by a fetch for another
\* folder and not by the empty list of a replay to {FOLDERS, null}.
C2_FolderPhotosMatchSelection ==
  (~Falsy(selectedFolder) /\ ~RefreshPending(selectedFolder)) => sfpSource = selectedFolder

\* a step of a transition the user asked for: the delayed tab switch or Back to
\* Folders, the Folders tab, a folder card whose fetch returned
UserTransitionStep ==
  \/ TransitionTimerFires
  \/ handleFoldersTabClick
  \/ \E s \in Slots, outcome \in Outcomes \cup {"404"} : OpenFolderDone(s, outcome)

NavigationChanged == activeTab' # activeTab \/ selectedFolder' # selectedFolder

PushedResultingEntry ==
  /\ hist' = Append(SubSeq(hist, 1, cursor),
                    [tab |-> activeTab', folder |-> OrNull(selectedFolder')])
  /\ cursor' = cursor + 1

\* C3: every user-initiated transition that changes {tab, folder} pushes exactly
\* one history entry carrying the resulting {tab, folder}, also while the refresh
\* of a popstate replay is in flight.
C3_UserTransitionPushesOnce ==
  [][(UserTransitionStep /\ NavigationChanged) => PushedResultingEntry]_vars

\* a step of a popstate replay: the handler itself, or one of its two fetches returning
ReplayRefreshStep ==
  \E s \in Slots, outcome \in Outcomes \cup {"404"} :
     ReplayFoldersDone(s, outcome) \/ ReplayFolderPhotosDone(s, outcome)

\* C4: applying a popstate replay never calls history.pushState: the handler
\* leaves the stack as it is and the cursor where the browser moved it, and the
\* replay's refresh changes neither.
C4_ReplayNeverPushes ==
  [][/\ \A delta \in {-1, 1} :
          handlePopState(delta) => (hist' = hist /\ cursor' = cursor + delta)
     /\ ReplayRefreshStep => (hist' = hist /\ cursor' = cursor)]_vars

\* C4 witness: the browser went back to an ALL_PHOTOS entry, the replay is
\* applied and popStateRef is already reset
C4_Witness ==
  /\ cursor < Len(hist)
  /\ hist[cursor].tab = ALL_PHOTOS
  /\ activeTab = ALL_PHOTOS
  /\ Falsy(selectedFolder)
  /\ ~popStateRef


\* a user event of a scripted scenario: it moves the script from a position in
\* from to position to
Script(from, to) ==
  /\ userOps \in from /\ userOps' = to
  /\ UNCHANGED <<mutOps, lastMutation, responseData, uploadOps, uploadPage, lastKey, folderStatus>>

\* Folders tab (again after a failure), a folder card, browser back once the
\* folder is open, browser forward; the replays' fetches of the folder's photos
\* succeed
NextBackForward ==
  \/ System /\ \E outcome \in {"ok", "err"} : MountFetchDone(outcome)
  \/ Script({0, 1}, 1) /\ handleFoldersTabClick
  \/ System /\ \E s \in Slots, outcome \in Outcomes : FoldersTabDone(s, outcome)
  \/ Script({1}, 2) /\ \E name \in FolderNames : OpenFolder(name)
  \/ Listing /\ \E s \in Slots, outcome \in Outcomes : OpenFolderDone(s, outcome)
  \/ Script({2}, 3) /\ ~Falsy(selectedFolder) /\ handlePopState(-1)
  \/ Script({3}, 4) /\ handlePopState(1)
  \/ System /\ \E s \in Slots, outcome \in Outcomes : ReplayFoldersDone(s, outcome)
  \/ Listing /\ \E s \in Slots : ReplayFolderPhotosDone(s, "ok")

SpecBackForward == Init /\ [][NextBackForward]_vars

AllSettled == \A s \in Slots : ops[s].kind = "idle"

\* C5: after openFolder(X) succeeded, browser back and then browser forward end,
\* once every refresh they triggered has completed, in {FOLDERS, X} with the
\* three history entries of before, the cursor on the last one, and
\* selectedFolderPhotos equal to the server's photos for X.
C5_BackForwardRestoresFolder ==
  (userOps = 4 /\ AllSettled) =>
     /\ activeTab = FOLDERS
     /\ Len(hist) = 3 /\ cursor = 3
     /\ selectedFolder = hist[3].folder
     /\ selectedFolderPhotos = FetchedFolderPhotos(selectedFolder)

\* C6: activePhoto is null or has the id of an element of the currently
\* visible collection.
C6_ActivePhotoIsVisible ==
  \/ activePhoto = NullPhoto
  \/ \E i \in DOMAIN currentVisiblePhotos : currentVisiblePhotos[i].id = activePhoto.id

\* C7: an upload started with a selection holding no image file has no request
\* in flight at any time and shows no success confirmation.
C7_NoImageNoRequest ==
  (lastMutation.kind = "upload" /\ \A i \in DOMAIN lastMutation.files : ~lastMutation.files[i]) =>
     /\ \A s \in Slots : ops[s].kind # "upload"
     /\ successMessage = NoMessage

\* the POSTs of an upload so far: image files only, in the order of the
\* selection, each once, none skipped
SentInOrderOnce(op) ==
  /\ \A i \in DOMAIN op.posted : op.files[op.posted[i]]
  /\ \A i, j \in DOMAIN op.posted : i < j => op.posted[i] < op.posted[j]
  /\ \A f \in DOMAIN op.files :
        (op.files[f] /\ f < op.posted[Len(op.posted)]) => f \in Range(op.posted)

\* C8: when the POST for file fk of an upload fails, one POST each was sent for
\* f1..fk in order and none twice, the upload ends there (no POST for the files
\* after fk), the error is the server's message or 'Upload failed. Please try
\* again.', and the upload shows no success message: the failing step, its last,
\* leaves successMessage as it was.
C8_FailedPostEndsUpload ==
  [][\A s \in Slots :
        (/\ ops[s].kind = "upload" /\ ops[s].pc = "posting"
         /\ ops'[s] # ops[s] /\ srv' = srv) =>
           /\ SentInOrderOnce(ops[s])
           /\ ops'[s] = IdleOp
           /\ error' \in {BackendMessage, ErrUpload}
           /\ successMessage' = successMessage]_vars

\* C8 witness: of two image files the first was stored, the POST of the second
\* failed without a server message, and the upload is over
C8_Witness ==
  /\ lastMutation.kind = "upload"
  /\ lastMutation.files = <<TRUE, TRUE>>
  /\ Len(srv) = Len(InitialStatuses) + 1
  /\ error = ErrUpload
  /\ AllSettled

\* C9: handleDeletePhoto on a photo whose statusId is empty sends no request,
\* sets the validation error and leaves photos, folders, selectedFolderPhotos,
\* activePhoto, viewLoading and deletingPhotoId unchanged.
C9_DeleteWithoutIdIsLocal ==
  [][(/\ mutOps' # mutOps
      /\ lastMutation'.kind = "delete"
      /\ lastMutation'.photo.statusId = "") =>
        /\ ops' = ops
        /\ srv' = srv
        /\ error' = ErrIdMissing
        /\ UNCHANGED <<photos, folders, selectedFolderPhotos, activePhoto, viewLoading,
                       deletingPhotoId>>]_vars

\* C9 witness: Delete was pressed on a photo without statusId
C9_Witness ==
  /\ lastMutation.kind = "delete"
  /\ lastMutation.photo.statusId = ""
  /\ error = ErrIdMissing
  /\ AllSettled

\* C10: when the DELETE succeeds activePhoto becomes null and the reads issued
\* are all-photos, the folder list and the photos of the folder open at that
\* moment (none when no folder is open).
C10_DeleteRereadsOpenFolder ==
  [][\A s \in Slots :
        (ops[s].kind = "delete" /\ ops[s].pc = "deleting" /\ ops'[s].pc = "reads") =>
           /\ activePhoto' = NullPhoto
           /\ ops'[s].pending = ReadsAfter(selectedFolder)]_vars


\* a request of a navigation handler is answered with a failure other than the
\* 404 of a folder listing
FailedNavigationRequest ==
  \/ MountFetchDone("err")
  \/ \E s \in Slots, outcome \in {"err", "errmsg"} :
        \/ FoldersTabDone(s, outcome)
        \/ OpenFolderDone(s, outcome)
        \/ ReplayFoldersDone(s, outcome)
        \/ ReplayFolderPhotosDone(s, outcome)

\* C11: every failed request (other than a 404 of a folder listing) leaves a
\* non-empty error message set; no failure is dropped without a message.
C11_FailureSetsError == [][FailedNavigationRequest => error' # ""]_vars

\* C12: when the folder-photos fetch of a folder card fails (not with 404),
\* selectedFolder and activeTab stay as they are, no history entry is pushed, an
\* error message is set and viewLoading is cleared.
C12_FailedOpenFolderAborts ==
  [][(\E s \in Slots, outcome \in {"err", "errmsg"} : OpenFolderDone(s, outcome)) =>
        /\ selectedFolder' = selectedFolder
        /\ activeTab' = activeTab
        /\ hist' = hist /\ cursor' = cursor
        /\ error' \in {BackendMessage, ErrFolder}
        /\ viewLoading' = FALSE]_vars

\* C12 witness: a folder card's fetch failed without a server message; the
\* folder list is still the view and the history holds the two entries of before
C12_Witness ==
  /\ error = ErrFolder
  /\ activeTab = FOLDERS
  /\ Falsy(selectedFolder)
  /\ ~viewLoading
  /\ Len(hist) = 2 /\ cursor = 2


\* nothing is pending: no handler is suspended and no transition timer is set
Quiet == AllSettled /\ transitionTimeout = <<>>

\* All Photos, Folders tab (again after a failure), possibly New Folder, a
\* folder card, Back to Folders, All Photos: each once the one before has
\* completed
NextEndToEnd ==
  \/ System /\ \E outcome \in {"ok", "err"} : MountFetchDone(outcome)
  \/ Script({0}, 1) /\ SelectAllPhotos
  \/ System /\ TransitionTimerFires
  \/ Script({1, 2}, 2) /\ Quiet /\ handleFoldersTabClick
  \/ System /\ \E s \in Slots, outcome \in Outcomes : FoldersTabDone(s, outcome)
  \/ Script({2}, 2) /\ Quiet /\ \E folderName \in PromptInputs : handleCreateFolder(folderName)
  \/ Script({2}, 3) /\ Quiet /\ \E name \in FolderNames \cup {"N"} : OpenFolder(name)
  \/ Listing /\ \E s \in Slots, outcome \in Outcomes \cup {"404"} : OpenFolderDone(s, outcome)
  \/ Script({3}, 4) /\ Quiet /\ CloseFolder
  \/ Script({4}, 5) /\ Quiet /\ SelectAllPhotos

SpecEndToEnd == Init /\ [][NextEndToEnd]_vars

Entry(tab, folder) == [tab |-> tab, folder |-> folder]

EndToEndDone == userOps = 5 /\ Quiet

BackOnAllPhotos ==
  activeTab = ALL_PHOTOS /\ selectedFolder = NoFolder /\ activePhoto = NullPhoto

\* C13 (as stated): the sequence selectAllPhotos, openFolders, openFolder(X),
\* closeFolder, selectAllPhotos ends on {ALL_PHOTOS, null, null} with, after the
\* initial entry, one history entry for each of the five operations, in order.
C13_OneEntryPerOperation ==
  EndToEndDone =>
     /\ BackOnAllPhotos
     /\ cursor = 6
     /\ \E name \in FolderNames \cup {"N"} :
           hist = <<Entry(ALL_PHOTOS, NoFolder), Entry(ALL_PHOTOS, NoFolder),
                    Entry(FOLDERS, NoFolder), Entry(FOLDERS, name),
                    Entry(FOLDERS, NoFolder), Entry(ALL_PHOTOS, NoFolder)>>

\* C13 (amended): the sequence ends on {ALL_PHOTOS, null, null} with, after the
\* initial entry, one history entry for each operation that changed {tab,
\* folder}, in order: the first selectAllPhotos, made on {ALL_PHOTOS, null},
\* changes nothing and pushes nothing.
C13_OneEntryPerChange ==
  EndToEndDone =>
     /\ BackOnAllPhotos
     /\ cursor = 5
     /\ \E name \in FolderNames \cup {"N"} :
           hist = <<Entry(ALL_PHOTOS, NoFolder),
                    Entry(FOLDERS, NoFolder), Entry(FOLDERS, name),
                    Entry(FOLDERS, NoFolder), Entry(ALL_PHOTOS, NoFolder)>>

\* C13 witness: the five operations were made and have completed
C13_Witness == EndToEndDone /\ Len(hist) = 5


\* ---- list responses given to normalizePhotos ----
MaxItems == 2      \* elements of a list response

Token(key, val) == [key |-> key, val |-> val]

ObjectAttachment(id, type, url, preview_url) ==
  [isString |-> FALSE, tokens |-> <<>>, id |-> id, type |-> type, url |-> url,
   preview_url |-> preview_url]

\* an attachment in its string form, as the key=value tokens of the text
StringAttachment(tokens) ==
  [isString |-> TRUE, tokens |-> tokens, id |-> "", type |-> "", url |-> "",
   preview_url |-> ""]

ImageWithId == ObjectAttachment("a", "image", "u1", "")
UntypedWithPreview == ObjectAttachment("", "", "u2", "p2")
Video == ObjectAttachment("", "video", "v", "")
ImageWithoutUrl == ObjectAttachment("", "image", "", "")
UrlThenNullPreview ==
  StringAttachment(<<Token("id", "s"), Token("type", "image"), Token("url", "u3"),
                     Token("preview_url", "null")>>)
NullPreviewThenUrl ==
  StringAttachment(<<Token("preview_url", "null"), Token("url", "u4"),
                     Token("type", "null")>>)
VideoString == StringAttachment(<<Token("type", "video"), Token("url", "u5")>>)

AttachmentLists ==
  {<<>>, <<ImageWithId>>, <<UntypedWithPreview>>, <<Video>>, <<ImageWithoutUrl>>,
   <<UrlThenNullPreview>>, <<NullPreviewThenUrl>>, <<VideoString>>,
   <<ImageWithId, UntypedWithPreview>>, <<Video, ImageWithId>>,
   <<VideoString, UrlThenNullPreview>>}

\* a grouping object: a status with media_attachments
GroupingObject(id, attachments) ==
  [id |-> id, url |-> "", preview_url |-> "", folder |-> "A", hasMedia |-> TRUE,
   media_attachments |-> attachments]

\* a direct photo item
DirectItem(id, url, preview_url, folder) ==
  [id |-> id, url |-> url, preview_url |-> preview_url, folder |-> folder,
   hasMedia |-> FALSE, media_attachments |-> <<>>]

ResponseItems ==
  {GroupingObject(id, attachments) : id \in {"1", ""}, attachments \in AttachmentLists}
  \cup {DirectItem("1", "f1", "", "A"), DirectItem("", "f2", "", " A"),
        DirectItem("3", "", "fp", "  "), DirectItem("4", "", "", "B")}

\* response.data of a list request: an array of at most MaxItems elements, or
\* something that is not an array (here an object that wraps the elements)
ListResponses ==
  {[isArray |-> isArray, items |-> items] :
      isArray \in BOOLEAN,
      items \in UNION {[1..n -> ResponseItems] : n \in 0..MaxItems}}

\* fetchPhotos of the mount effect completes with response.data = responseData
PayloadLoaded ==
  /\ loading
  /\ photos' = normalizePhotos(responseData, FreshBase)
  /\ loading' = FALSE
  /\ UNCHANGED <<folders, activeTab, selectedFolder, selectedFolderPhotos, viewLoading,
                 error, successMessage, activePhoto, deletingPhotoId, transitionTimeout,
                 successTimeout, popStateRef, histVars, srvVars, ops, sfpSource>>

InitNormalize ==
  /\ InitClient
  /\ srv = InitialStatuses
  /\ srvFolders = InitialFolders
  /\ responseData \in ListResponses

NextNormalize == System /\ PayloadLoaded

\* normalizePhotos applied to every list response of the bounded set
SpecNormalize == InitNormalize /\ [][NextNormalize]_vars


\* ---- claims about normalizePhotos ----
\* the list request of SpecNormalize has been answered and normalised
Loaded == ~loading

AttachmentsOf(data, i) == data.items[i].media_attachments

\* positions <<i, k>> of the attachments of the grouping objects of data
AttachmentPositions(data) ==
  {pos \in (DOMAIN data.items) \X (1..3) :
      data.items[pos[1]].hasMedia /\ pos[2] \in DOMAIN AttachmentsOf(data, pos[1])}

\* the value of the token named key in a string attachment, "" when there is
\* none or when it is the literal null
OwnValue(tokens, key) ==
  LET hits == {i \in DOMAIN tokens : tokens[i].key = key}
  IN IF hits = {} \/ tokens[Min(hits)].val = "null" THEN "" ELSE tokens[Min(hits)].val

\* the fields an attachment states, whichever its form
Stated(att) ==
  IF att.isString
  THEN [type |-> OwnValue(att.tokens, "type"), url |-> OwnValue(att.tokens, "url"),
        preview_url |-> OwnValue(att.tokens, "preview_url")]
  ELSE [type |-> att.type, url |-> att.url, preview_url |-> att.preview_url]

\* type absent or "image", and a preview_url or url to show
IsShown(att) ==
  /\ Stated(att).type \in {"", "image"}
  /\ Stated(att).preview_url # "" \/ Stated(att).url # ""

ObjectsOnly(data) ==
  \A pos \in AttachmentPositions(data) : ~AttachmentsOf(data, pos[1])[pos[2]].isString

ShownAttachments(data) ==
  {pos \in AttachmentPositions(data) : IsShown(AttachmentsOf(data, pos[1])[pos[2]])}

ShownDirectItems(data) ==
  {i \in DOMAIN data.items :
      ~data.items[i].hasMedia /\ (data.items[i].url # "" \/ data.items[i].preview_url # "")}

\* C14: for an array of grouping objects (attachments given as objects), with
\* direct items possibly mixed in, normalizePhotos returns one photo for each
\* attachment whose type is absent or "image" and that has a preview_url or url
\* (and one for each direct item with a url), and no two photos have the same id.
C14_CountAndUniqueIds ==
  (Loaded /\ responseData.isArray /\ ObjectsOnly(responseData)) =>
     /\ Len(photos) = Cardinality(ShownAttachments(responseData))
                      + Cardinality(ShownDirectItems(responseData))
     /\ \A i, j \in DOMAIN photos : i # j => photos[i].id # photos[j].id

\* C15: a string attachment with url=U (U not null), preview_url=null or absent
\* and type absent or "image" yields a photo whose url is U, whichever token
\* comes first.
C15_StringAttachmentUrl ==
  (Loaded /\ responseData.isArray) =>
     \A pos \in AttachmentPositions(responseData) :
        LET att == AttachmentsOf(responseData, pos[1])[pos[2]]
        IN (att.isString /\ IsShown(att) /\ Stated(att).preview_url = "") =>
              \E n \in DOMAIN photos : photos[n].url = Stated(att).url

\* C16: a photo expanded from a grouping object has the grouping object's id as
\* statusId, and "" when the grouping object has no id: every photo whose id was
\* drawn at random (its element has no id) has statusId "", and every photo
\* with an id `${id}-${index}` has statusId id.
C16_StatusIdIsGroupId ==
  Loaded =>
     \A n \in DOMAIN photos :
        /\ IsUuid(photos[n].id) => photos[n].statusId = ""
        /\ Len(photos[n].id) = 2 => photos[n].statusId = photos[n].id[1]

\* the url normalizePhotos is to show for each shown attachment and direct
\* item of elements i.. of data, in input order
RECURSIVE ShownUrls(_, _, _)
ShownUrls(data, i, k) ==
  IF i > Len(data.items) THEN <<>>
  ELSE LET item == data.items[i]
       IN IF ~item.hasMedia
          THEN (IF i \in ShownDirectItems(data) THEN <<Or(item.url, item.preview_url)>> ELSE <<>>)
               \o ShownUrls(data, i + 1, 1)
          ELSE IF k > Len(item.media_attachments) THEN ShownUrls(data, i + 1, 1)
          ELSE (IF <<i, k>> \in ShownAttachments(data)
                THEN <<Or(Stated(item.media_attachments[k]).preview_url,
                          Stated(item.media_attachments[k]).url)>>
                ELSE <<>>)
               \o ShownUrls(data, i, k + 1)

\* sub is what remains of seq when some of its elements are left out
RECURSIVE IsSubsequence(_, _)
IsSubsequence(sub, seq) ==
  IF sub = <<>> THEN TRUE
  ELSE IF seq = <<>> THEN FALSE
  ELSE IF Head(sub) = Head(seq) THEN IsSubsequence(Tail(sub), Tail(seq))
  ELSE IsSubsequence(sub, Tail(seq))

PhotoUrls == [n \in DOMAIN photos |-> photos[n].url]

\* the preview_url and url an attachment states
UrlsOf(att) == {Stated(att).preview_url, Stated(att).url} \ {""}

\* C17: for every array payload every returned photo has a non-empty url, an
\* attachment whose type is present and not "image" contributes no photo, and
\* the photos appear in input order.
C17_UrlTypeOrder ==
  (Loaded /\ responseData.isArray) =>
     /\ \A n \in DOMAIN photos : photos[n].url # ""
     /\ \A pos \in AttachmentPositions(responseData) :
           LET att == AttachmentsOf(responseData, pos[1])[pos[2]]
           IN Stated(att).type \notin {"", "image"} =>
                 \A n \in DOMAIN photos : photos[n].url \notin UrlsOf(att)
     /\ IsSubsequence(PhotoUrls, ShownUrls(responseData, 1, 1))

\* C17 witness: a video attachment before an image attachment in one grouping
\* object, and the one photo of the image
C17_Witness ==
  /\ Loaded /\ responseData.isArray
  /\ \E i \in DOMAIN responseData.items :
        AttachmentsOf(responseData, i) = <<Video, ImageWithId>>
  /\ \E n \in DOMAIN photos : photos[n].url = "u1"

\* C18: for a payload that is not an array normalizePhotos returns the empty
\* sequence and the load raises no error.
C18_NonArrayGivesEmpty ==
  (Loaded /\ ~responseData.isArray) => (photos = <<>> /\ error = "")

\* C18 witness: the response is an object wrapping two elements
C18_Witness ==
  Loaded /\ ~responseData.isArray /\ Len(responseData.items) = 2 /\ photos = <<>>


\* ---- folder index ----
\* elements of GET /statuses that differ in their folder only
FolderedItems ==
  {DirectItem("1", "f1", "", "A"), DirectItem("", "f2", "", " A"),
   DirectItem("3", "", "fp", "  "), DirectItem("5", "f5", "", "")}

FolderedResponses ==
  {[isArray |-> TRUE, items |-> items] :
      items \in UNION {[1..n -> FolderedItems] : n \in 0..MaxItems}}

\* folderName of the descriptors that GET /folder returns
FolderLists ==
  {<<>>, <<"A">>, <<"A", "B">>, <<"", "A">>, <<" A", "A", "A">>, <<"B", "  ">>}

InitFolderIndex ==
  /\ InitClient
  /\ srv = InitialStatuses
  /\ srvFolders \in FolderLists
  /\ responseData \in FolderedResponses

NextFolderIndex ==
  \/ System /\ PayloadLoaded
  \/ User(MaxUserOps) /\ handleFoldersTabClick
  \/ \E s \in Slots, outcome \in Outcomes : System /\ FoldersTabDone(s, outcome)
  \/ \E folderName \in PromptInputs : User(MaxUserOps) /\ handleCreateFolder(folderName)

\* photos and folders as the list requests and New Folder produce them
SpecFolderIndex == InitFolderIndex /\ [][NextFolderIndex]_vars

\* number of photos whose trimmed folder is n
PhotosIn(n) == Cardinality({i \in DOMAIN photos : Trim(photos[i].folder) = n})

FolderNameUniverse ==
  Range(folders) \cup {photos[i].folder : i \in DOMAIN photos}
  \cup {Trim(photos[i].folder) : i \in DOMAIN photos} \cup DOMAIN folderCounts

\* C19: for every name n, folderCounts[n] is the number of photos whose trimmed
\* folder is n when that number is positive, 0 when there is no such photo and n
\* is in folders, and n is no key otherwise; the photos whose folder is empty or
\* only whitespace add to the count of no key.
C19_FolderCountsFunction ==
  /\ \A n \in FolderNameUniverse \ {""} :
        IF PhotosIn(n) > 0
        THEN n \in DOMAIN folderCounts /\ folderCounts[n] = PhotosIn(n)
        ELSE IF n \in Range(folders)
             THEN n \in DOMAIN folderCounts /\ folderCounts[n] = 0
             ELSE n \notin DOMAIN folderCounts
  /\ "" \in DOMAIN folderCounts => folderCounts[""] = 0

\* photos are loaded, one with an untrimmed folder and one without a folder, and
\* folders holds a name that no photo has
C19_Witness ==
  /\ ~loading
  /\ \E i \in DOMAIN photos : photos[i].folder = " A"
  /\ \E i \in DOMAIN photos : Trim(photos[i].folder) = ""
  /\ \E n \in Range(folders) : n # "" /\ PhotosIn(n) = 0

\* C20: every key of folderCounts is a non-empty name without surrounding
\* whitespace, whatever the folder list of the server returns and whatever name
\* is entered through New Folder.
C20_FolderKeysAreNames ==
  \A n \in DOMAIN folderCounts : n # "" /\ Trim(n) = n


\* ---- claims about the lightbox, the timers and the mutations ----
\* positions (from 1) of the elements of the visible collection with the id of
\* activePhoto
ActivePositions ==
  {i \in DOMAIN currentVisiblePhotos : currentVisiblePhotos[i].id = activePhoto.id}

\* activePhoto after navigatePhoto(step), step being -1 or 1
Adjacent(step) ==
  IF ActivePositions = {} THEN activePhoto
  ELSE LET target == Min(ActivePositions) + step
       IN IF target \in DOMAIN currentVisiblePhotos
          THEN currentVisiblePhotos[target]
          ELSE activePhoto

\* C21: showNextPhoto / showPreviousPhoto set activePhoto to the element after /
\* before it in the currently visible collection, leave it as it is on the last
\* / first element and when it is not in the collection, and never change
\* activeTab or selectedFolder.
C21_NavigatePhotoAdjacent ==
  [][/\ showNextPhoto => activePhoto' = Adjacent(1)
     /\ showPreviousPhoto => activePhoto' = Adjacent(-1)
     /\ (showNextPhoto \/ showPreviousPhoto) =>
           (activeTab' = activeTab /\ selectedFolder' = selectedFolder)]_vars

\* C21 witness: Next was pressed on the photo before the last one and the last
\* one is now in the lightbox
C21_Witness ==
  /\ lastKey.key = "next"
  /\ Len(photos) = 3
  /\ activeTab = ALL_PHOTOS
  /\ lastKey.from = photos[2]
  /\ activePhoto = photos[3]


\* C22: of withViewTransition calls made while the timer of the one before is
\* still pending, only the update of the last call is applied: each call sets
\* viewLoading and leaves its own timer as the only pending one, and a timer
\* that fires is the last one set, so no update of an earlier call is applied.
C22_OnlyLastTransitionApplies ==
  [][/\ Len(transitionTimeout') <= 1
     /\ SelectAllPhotos =>
           (viewLoading' /\ transitionTimeout' # <<>>
            /\ transitionTimeout'[1].callback = "allPhotos")
     /\ CloseFolder =>
           (viewLoading' /\ transitionTimeout' # <<>>
            /\ transitionTimeout'[1].callback = "closeFolder")
     /\ TransitionTimerFires => Len(transitionTimeout) = 1]_vars

\* C22 witness: a folder is open and the All Photos timer that is pending
\* replaced a pending timer
C22_Witness ==
  /\ ~Falsy(selectedFolder)
  /\ transitionTimeout # <<>>
  /\ transitionTimeout[1].callback = "allPhotos"
  /\ transitionTimeout[1].restarts >= 1
  /\ viewLoading


\* ---- repeated uploads and deletes ----
MaxSuccessOps == 3   \* uploads and deletes in one behaviour of SpecSuccess

\* an upload or a delete, of at most n in one behaviour
Repeated(n) ==
  /\ userOps < n /\ userOps' = userOps + 1
  /\ mutOps' = mutOps + 1
  /\ UNCHANGED <<responseData, uploadOps, uploadPage, lastKey, folderStatus>>

\* uploads of one image and deletes from the All Photos grid and the lightbox,
\* one after the other or overlapping, and the success timer
NextSuccess ==
  \/ System /\ MountFetchDone("ok")
  \/ Repeated(MaxSuccessOps) /\ handleFileChange(<<TRUE>>)
  \/ Repeated(MaxSuccessOps) /\ \E photo \in ShownCards : DeleteFromCard(photo)
  \/ User(MaxSuccessOps) /\ \E photo \in ShownCards : OpenPhoto(photo)
  \/ User(MaxSuccessOps) /\ ClosePhoto
  \/ Repeated(MaxSuccessOps) /\ DeleteFromLightbox
  \/ System /\ \E s \in Slots, outcome \in Outcomes : PostDone(s, outcome)
  \/ System /\ \E s \in Slots, outcome \in Outcomes : DeleteDone(s, outcome)
  \/ Listing /\ \E s \in Slots, read \in {"photos", "folders"}, outcome \in Outcomes :
                  ReadDone(s, read, outcome)
  \/ System /\ SuccessTimerFires

SpecSuccess == Init /\ [][NextSuccess]_vars

\* C23: at most one success auto-clear timer is pending, and the timer that
\* clears a success message is the one started by the latest showUploadSuccess
\* call, the call that showed this message: never one of an earlier success.
C23_SuccessClearedByLatestTimer ==
  [][/\ Len(successTimeout') <= 1
     /\ SuccessTimerFires =>
           /\ Len(successTimeout) = 1
           /\ successMessage # NoMessage => successTimeout[1].callback = successMessage]_vars

\* C23 witness: a success message is shown whose timer replaced the pending timer
\* of the success before
C23_Witness ==
  /\ successTimeout # <<>>
  /\ successTimeout[1].restarts >= 1
  /\ successMessage = successTimeout[1].callback


\* C24: a 404 answer to a folder listing sets selectedFolderPhotos to the empty
\* sequence and raises no error in any caller: the folder card completes its
\* transition to the folder (on the tab that is active then), and a replay, an upload into the folder and the
\* re-fetch after a delete go on as after a success.  Any other failure leaves
\* selectedFolderPhotos alone and is an error for the caller: the folder card,
\* the upload and the delete set the error message.
C24_NotFoundIsEmptyFolder ==
  [][\A s \in Slots :
        /\ OpenFolderDone(s, "404") =>
              /\ selectedFolderPhotos' = <<>>
              /\ error' = error
              /\ selectedFolder' = ops[s].folder
              /\ activeTab' = activeTab
        /\ ReplayFolderPhotosDone(s, "404") =>
              (selectedFolderPhotos' = <<>> /\ error' = error)
        /\ ReadDone(s, "folderPhotos", "404") =>
              /\ selectedFolderPhotos' = <<>>
              /\ error' = error
              /\ ops'[s] = IdleOp \/ ops'[s].rejected = ops[s].rejected
              /\ (ops'[s] = IdleOp /\ ~ops[s].rejected) => successMessage' = SuccessOf(ops[s])
        /\ \A outcome \in {"err", "errmsg"} :
              /\ OpenFolderDone(s, outcome) =>
                    /\ selectedFolderPhotos' = selectedFolderPhotos
                    /\ selectedFolder' = selectedFolder
                    /\ error' = BackendOr(outcome, ErrFolder)
              /\ ReplayFolderPhotosDone(s, outcome) =>
                    selectedFolderPhotos' = selectedFolderPhotos
              /\ (ReadDone(s, "folderPhotos", outcome) /\ ~ops[s].rejected) =>
                    /\ selectedFolderPhotos' = selectedFolderPhotos
                    /\ successMessage' = successMessage
                    /\ error' = BackendOr(outcome, FailureOf(ops[s]))]_vars

\* C24 witness: the folder listing of the re-fetch after a delete was answered
\* 404 and the delete ended with its success message over an empty folder
C24_Witness ==
  /\ folderStatus = [caller |-> "delete", outcome |-> "404"]
  /\ ~Falsy(selectedFolder)
  /\ selectedFolderPhotos = <<>>
  /\ error = ""
  /\ successMessage = MsgDeleted
  /\ AllSettled


\* the positions of the image-typed files of a selection, in selection order
ImagePositions(files) ==
  SelectSeq([i \in 1..Len(files) |-> i], LAMBDA i : files[i])

IsPrefix(front, whole) ==
  Len(front) <= Len(whole) /\ front = SubSeq(whole, 1, Len(front))

Posting(s) == ops[s].kind = "upload" /\ ops[s].pc = "posting"

\* C25: of a selection with an image-typed file the image-typed files are
\* POSTed once each in selection order, a POST being issued only after the one
\* before succeeded (the server stored its file); the other files are never
\* sent and the selection raises no validation error; the reads start once
\* every image-typed file has been sent and stored.
C25_ImagesPostedInOrder ==
  [][\A s \in Slots :
        /\ (ops[s].kind = "idle" /\ ops'[s].kind = "upload" /\ ops'[s].pc = "posting") =>
              /\ Len(ops'[s].posted) = 1
              /\ IsPrefix(ops'[s].posted, ImagePositions(ops'[s].files))
              /\ error' = ""
        /\ (Posting(s) /\ ops'[s].kind = "upload" /\ ops'[s].posted # ops[s].posted) =>
              /\ IsPrefix(ops'[s].posted, ImagePositions(ops[s].files))
              /\ Len(ops'[s].posted) = Len(ops[s].posted) + 1
              /\ Len(srv') = Len(srv) + 1
        /\ (Posting(s) /\ ops'[s].kind = "upload" /\ ops'[s].pc = "reads") =>
              /\ ops[s].posted = ImagePositions(ops[s].files)
              /\ Len(srv') = Len(srv) + 1
              /\ error' = error]_vars

\* C25 witness: of the selection (other file, image) the image was sent and
\* stored, and the upload is at its reads
C25_Witness ==
  \E s \in Slots :
     /\ ops[s].kind = "upload" /\ ops[s].pc = "reads"
     /\ ops[s].files = <<FALSE, TRUE>>
     /\ ops[s].posted = <<2>>
     /\ Len(srv) = Len(InitialStatuses) + 1
     /\ error = ""


UploadMessages == {MsgUploaded} \cup {MsgUploadedTo(f) : f \in FolderNames \cup {"N"}}

HasImage(files) == \E i \in DOMAIN files : files[i]

\* the last read of the upload in slot s is answered and none of its reads failed
LastReadSucceeds(s) ==
  /\ ops[s].kind = "upload" /\ ops[s].pc = "reads"
  /\ Cardinality(ops[s].pending) = 1
  /\ ~ops[s].rejected
  /\ ops'[s] = IdleOp
  /\ error' = error

\* C26: when the last POST of a global upload has succeeded exactly the
\* all-photos and folder-list reads are issued, and for an upload to folder F
\* exactly these two and the read of the photos of F; no read is in flight while
\* a POST is; the success message of an upload is set only by the step that
\* answers its last read, all of them having succeeded.
C26_ReadsFollowLastPost ==
  [][\A s \in Slots :
        /\ (Posting(s) /\ ops'[s].kind = "upload" /\ ops'[s].pc = "reads") =>
              /\ ops[s].posted = ImagePositions(ops[s].files)
              /\ ops'[s].folder = ops[s].folder
              /\ ops'[s].pending =
                    IF ops[s].folder = NoFolder THEN {"photos", "folders"}
                    ELSE {"photos", "folders", "folderPhotos"}
        /\ Posting(s) => ops[s].pending = {}
        /\ (successMessage' # successMessage /\ successMessage' \in UploadMessages) =>
              \E t \in Slots :
                 /\ LastReadSucceeds(t)
                 /\ successMessage' = IF ops[t].folder = NoFolder THEN MsgUploaded
                                      ELSE MsgUploadedTo(ops[t].folder)]_vars

\* C26 witness: an upload of images to the open folder has ended with its
\* success message, the folder's photos having been read last
C26_Witness ==
  /\ lastMutation.kind = "upload"
  /\ HasImage(lastMutation.files)
  /\ lastMutation.folder \in FolderNames
  /\ successMessage = MsgUploadedTo(lastMutation.folder)
  /\ folderStatus = [caller |-> "upload", outcome |-> "ok"]
  /\ Len(srv) > Len(InitialStatuses)
  /\ AllSettled


\* ---- progress ----
\* a pending request is answered, or a pending timer fires
Completes ==
  \/ System /\ TransitionTimerFires
  \/ System /\ \E outcome \in {"ok", "err"} : MountFetchDone(outcome)
  \/ System /\ \E s \in Slots, outcome \in Outcomes : FoldersTabDone(s, outcome)
  \/ Listing /\ \E s \in Slots, outcome \in Outcomes \cup {"404"} : OpenFolderDone(s, outcome)
  \/ System /\ \E s \in Slots, outcome \in Outcomes : ReplayFoldersDone(s, outcome)
  \/ Listing /\ \E s \in Slots, outcome \in Outcomes \cup {"404"} :
                  ReplayFolderPhotosDone(s, outcome)
  \/ System /\ SuccessTimerFires
  \/ System /\ \E s \in Slots, outcome \in Outcomes : DeleteDone(s, outcome)
  \/ System /\ \E s \in Slots, outcome \in Outcomes : PostDone(s, outcome)
  \/ Listing /\ \E s \in Slots, read \in {"photos", "folders", "folderPhotos"},
                  outcome \in Outcomes \cup {"404"} : ReadDone(s, read, outcome)

\* Spec, and every request is answered and every timer fires
SpecLive == Spec /\ WF_vars(Completes)

\* C27: if every request completes and every timer fires, the App reaches again
\* and again a state where loading and viewLoading are both false, whatever
\* the interleaving of the handlers.
C27_EventuallyInteractive == []<>(~loading /\ ~viewLoading)

\* C27 witness: after an upload or delete that changed the server and at least
\* one transition everything has completed and the App is interactive
C27_Witness ==
  /\ userOps = MaxUserOps
  /\ Len(srv) # Len(InitialStatuses)
  /\ Len(hist) > 1
  /\ Quiet
  /\ ~loading /\ ~viewLoading


\* C28: while a delete is in flight, from its DELETE request to its end,
\* viewLoading is true and deletingPhotoId is the id of its photo, also when a
\* transition timer fires or another handler finishes in between.
C28_DeleteKeepsBusy ==
  \A s \in Slots :
     ops[s].kind = "delete" => (viewLoading /\ deletingPhotoId = ops[s].photo.id)


\* C29: while a delete of a photo is in flight no second DELETE for the same
\* statusId is issued: neither the card nor the lightbox button starts another
\* handleDeletePhoto for it before the first has ended.
C29_OneDeletePerStatus ==
  \A s, t \in Slots :
     (s # t /\ ops[s].kind = "delete" /\ ops[t].kind = "delete") =>
        ops[s].photo.statusId # ops[t].photo.statusId


\* two photo lists are the same up to the values of their random ids
SamePhotos(a, b) ==
  /\ Len(a) = Len(b)
  /\ \A i \in DOMAIN a :
        /\ a[i].statusId = b[i].statusId
        /\ a[i].url = b[i].url
        /\ a[i].folder = b[i].folder
        /\ IsUuid(a[i].id) = IsUuid(b[i].id)
        /\ ~IsUuid(a[i].id) => a[i].id = b[i].id

\* C30: once every handler has ended after an upload POST or a DELETE took
\* effect on the server, photos is normalizePhotos of the server's current
\* all-photos list.
C30_PhotosMatchServer ==
  (AllSettled /\ ~loading /\ srv # InitialStatuses) => SamePhotos(photos, FetchedAllPhotos)


\* ---- smaller specifications ----
\* the lightbox over the All Photos grid and over an open folder, while an
\* upload re-reads the photos; every request succeeds
NextLightbox ==
  \/ System /\ MountFetchDone("ok")
  \/ User(MaxUserOps) /\ SelectAllPhotos
  \/ System /\ TransitionTimerFires
  \/ User(MaxUserOps) /\ handleFoldersTabClick
  \/ System /\ \E s \in Slots : FoldersTabDone(s, "ok")
  \/ User(MaxUserOps) /\ \E name \in FolderNames : OpenFolder(name)
  \/ Listing /\ \E s \in Slots : OpenFolderDone(s, "ok")
  \/ User(MaxUserOps) /\ \E photo \in ShownCards : OpenPhoto(photo)
  \/ User(MaxUserOps) /\ ClosePhoto
  \/ Key(MaxUserOps, "previous") /\ showPreviousPhoto
  \/ Key(MaxUserOps, "next") /\ showNextPhoto
  \/ Mutation(MaxUserOps) /\ handleFileChange(<<TRUE>>)
  \/ Mutation(MaxUserOps) /\ handleFolderFileChange(<<TRUE>>)
  \/ System /\ \E s \in Slots : PostDone(s, "ok")
  \/ Listing /\ \E s \in Slots, read \in {"photos", "folders", "folderPhotos"} :
                  ReadDone(s, read, "ok")

SpecLightbox == Init /\ [][NextLightbox]_vars

\* an upload or delete of a scripted scenario
ScriptMutation(from, to) ==
  /\ userOps \in from /\ userOps' = to
  /\ mutOps' = mutOps + 1
  /\ UNCHANGED <<responseData, uploadOps, uploadPage, lastKey, folderStatus>>

\* one upload, global or into a folder opened before; the navigation requests
\* succeed
NextUpload ==
  \/ System /\ MountFetchDone("ok")
  \/ Script({0}, 1) /\ handleFoldersTabClick
  \/ System /\ \E s \in Slots : FoldersTabDone(s, "ok")
  \/ Script({1}, 2) /\ \E name \in FolderNames : OpenFolder(name)
  \/ Listing /\ \E s \in Slots : OpenFolderDone(s, "ok")
  \/ ScriptMutation({0, 1, 2}, 3) /\ \E files \in FileSelections : handleFileChange(files)
  \/ ScriptMutation({2}, 3) /\ \E files \in FileSelections : handleFolderFileChange(files)
  \/ System /\ \E s \in Slots, outcome \in Outcomes : PostDone(s, outcome)
  \/ Listing /\ \E s \in Slots, read \in {"photos", "folders", "folderPhotos"},
                  outcome \in Outcomes \cup {"404"} : ReadDone(s, read, outcome)

SpecUpload == Init /\ [][NextUpload]_vars

\* the four callers of fetchFolderPhotos; every request other than a folder
\* listing succeeds
NextListing ==
  \/ System /\ MountFetchDone("ok")
  \/ User(MaxUserOps) /\ handleFoldersTabClick
  \/ System /\ \E s \in Slots : FoldersTabDone(s, "ok")
  \/ User(MaxUserOps) /\ handleCreateFolder("N")
  \/ User(MaxUserOps) /\ \E name \in FolderNames \cup {"N"} : OpenFolder(name)
  \/ Listing /\ \E s \in Slots, outcome \in Outcomes \cup {"404"} : OpenFolderDone(s, outcome)
  \/ User(MaxUserOps) /\ \E delta \in {-1, 1} : handlePopState(delta)
  \/ System /\ \E s \in Slots : ReplayFoldersDone(s, "ok")
  \/ Listing /\ \E s \in Slots, outcome \in Outcomes \cup {"404"} :
                  ReplayFolderPhotosDone(s, outcome)
  \/ Mutation(MaxUserOps) /\ \E photo \in ShownCards : DeleteFromCard(photo)
  \/ System /\ \E s \in Slots : DeleteDone(s, "ok")
  \/ Mutation(MaxUserOps) /\ \E files \in FileSelections : handleFolderFileChange(files)
  \/ System /\ \E s \in Slots : PostDone(s, "ok")
  \/ Listing /\ \E s \in Slots, read \in {"photos", "folders", "folderPhotos"},
                  outcome \in Outcomes \cup {"404"} :
                  (read = "folderPhotos" \/ outcome = "ok") /\ ReadDone(s, read, outcome)

SpecListing == Init /\ [][NextListing]_vars


\* ---- the multi-attempt uploader (src/unnamed/part_000) ----
\* the {url, field} candidates of uploadSingleFile, in list order
attempts ==
  << [url |-> "/api/upload", field |-> "file"],
     [url |-> "/api/upload", field |-> "files"],
     [url |-> "/upload", field |-> "file"],
     [url |-> "/upload", field |-> "files"] >>

\* the rejection of a request: err.response.data.message, when the body has one
ErrorOf(request, attempt, outcome) ==
  [request |-> request, attempt |-> attempt,
   message |-> IF outcome = "errmsg" THEN BackendMessage ELSE ""]

\* a POST of uploadSingleFile as the network saw it: which file, which
\* candidate, and how it was answered; posts of a call holds the POSTs of its
\* current uploadSingleFile(file)
Post(file, attempt) == [file |-> file, attempt |-> attempt, outcome |-> "pending"]

Answered(posts, outcome) == [posts EXCEPT ![Len(posts)].outcome = outcome]

FreeUploads == {s \in Slots : uploadOps[s].pc = "idle"}

\* the catch block keeps the first error of the candidates
CaughtFirst(lastError, err) == IF lastError = NoError THEN err ELSE lastError

\* catch (err) { lastError = err; }
Caught(lastError, err) == err

\* the catch and finally of handleFileChange, and the end of the call
UploadEnded(s, posts, caught, result) ==
  /\ uploadOps' = [uploadOps EXCEPT ![s] = IdleUpload]
  /\ uploadPage' = [uploadPage EXCEPT
       !.error = IF caught = NoError THEN @ ELSE Or(caught.message, ErrUpload),
       !.refreshed = (result = "ok"),
       !.viewLoading = FALSE,
       !.ended = [files |-> uploadOps[s].files, file |-> uploadOps[s].file,
                  posts |-> posts, caught |-> caught, result |-> result]]

\* onChange of the file input with a non-empty selection: the first candidate
\* of the first image file is posted, or the validation error is set
handleFileChangeAttempts(files) ==
  IF ImagesAfter(files, 0) = {}
    THEN /\ uploadPage' = [uploadPage EXCEPT
              !.error = ErrImagesOnly,
              !.viewLoading = FALSE,
              !.ended = [files |-> files, file |-> 0, posts |-> <<>>,
                         caught |-> NoError, result |-> "validation"]]
         /\ UNCHANGED uploadOps
    ELSE /\ FreeUploads # {}
         /\ uploadOps' = [uploadOps EXCEPT ![Min(FreeUploads)] =
              [pc |-> "post", files |-> files, file |-> Min(ImagesAfter(files, 0)),
               attempt |-> 1, lastError |-> NoError,
               posts |-> <<Post(Min(ImagesAfter(files, 0)), 1)>>]]
         /\ uploadPage' = [uploadPage EXCEPT !.error = "", !.viewLoading = TRUE]

\* the pending axios.post of uploadSingleFile is answered
AttemptDone(s, outcome) ==
  LET op == uploadOps[s]
      posts == Answered(op.posts, outcome)
      lastError == Caught(op.lastError, ErrorOf("post", op.attempt, outcome))
  IN
  /\ op.pc = "post"
  /\ IF outcome = "ok"
       THEN /\ IF ImagesAfter(op.files, op.file) # {}
                 THEN uploadOps' = [uploadOps EXCEPT ![s] =
                        [op EXCEPT !.file = Min(ImagesAfter(op.files, op.file)),
                                   !.attempt = 1,
                                   !.lastError = NoError,
                                   !.posts = <<Post(Min(ImagesAfter(op.files, op.file)), 1)>>]]
                 ELSE uploadOps' = [uploadOps EXCEPT ![s] =
                        [op EXCEPT !.pc = "get", !.attempt = 0, !.posts = posts]]
            /\ UNCHANGED uploadPage
       ELSE IF op.attempt < Len(attempts)
         THEN /\ uploadOps' = [uploadOps EXCEPT ![s] =
                    [op EXCEPT !.attempt = op.attempt + 1,
                               !.lastError = lastError,
                               !.posts = Append(posts, Post(op.file, op.attempt + 1))]]
              /\ UNCHANGED uploadPage
         ELSE UploadEnded(s, posts, lastError, "upload")

\* the axios.get of /statuses after the last file is answered
StatusesDone(s, outcome) ==
  /\ uploadOps[s].pc = "get"
  /\ IF outcome = "ok"
       THEN UploadEnded(s, uploadOps[s].posts, NoError, "ok")
       ELSE UploadEnded(s, uploadOps[s].posts, ErrorOf("get", 0, outcome), "get")

\* a selection in the file input of part_000, in a scripted scenario
Selected(from, to) ==
  /\ userOps \in from
  /\ userOps' = to
  /\ UNCHANGED <<appVars, histVars, srvVars, ops, mutOps, lastMutation, sfpSource,
                 responseData, lastKey, folderStatus>>

\* a response to a request of part_000
Answer ==
  UNCHANGED <<appVars, histVars, srvVars, ops, userOps, mutOps, lastMutation,
              sfpSource, responseData, lastKey, folderStatus>>

\* two selections, the second during or after the upload of the first
NextAttempts ==
  \/ Selected({0}, 1) /\ \E files \in FileSelections : handleFileChangeAttempts(files)
  \/ Selected({1}, 2) /\ \E files \in FileSelections : handleFileChangeAttempts(files)
  \/ Answer /\ \E s \in Slots, outcome \in Outcomes : AttemptDone(s, outcome)
  \/ Answer /\ \E s \in Slots, outcome \in Outcomes : StatusesDone(s, outcome)

SpecAttempts == Init /\ [][NextAttempts]_vars


\* the POSTs of one uploadSingleFile(file): candidate i is the i-th POST, all
\* for the same file, and every POST before the last one was rejected
InListOrder(posts) ==
  /\ Len(posts) <= Len(attempts)
  /\ \A i \in DOMAIN posts :
        /\ posts[i].attempt = i
        /\ posts[i].file = posts[1].file
        /\ i < Len(posts) => posts[i].outcome \in {"err", "errmsg"}

Rejected(post) == post.outcome \in {"err", "errmsg"}

\* C31: uploadSingleFile tries the candidates strictly in list order, one at a
\* time; the first successful POST ends the attempts for the file with success
\* and no later candidate is tried; the file's upload fails only if every
\* candidate was rejected, and the error raised is that of the last candidate.
C31_CandidatesInOrder ==
  /\ \A s \in Slots :
        LET op == uploadOps[s] IN
        /\ InListOrder(op.posts)
        /\ op.pc = "post" =>
              /\ op.posts # <<>>
              /\ op.posts[Len(op.posts)] = Post(op.file, op.attempt)
        /\ op.pc = "get" => op.posts[Len(op.posts)].outcome = "ok"
  /\ LET ended == uploadPage.ended IN
     /\ InListOrder(ended.posts)
     /\ ended.result \in {"ok", "get"} =>
           /\ ended.posts[Len(ended.posts)].outcome = "ok"
           /\ ended.caught.request # "post"
     /\ ended.result = "upload" <=>
           (Len(ended.posts) = Len(attempts) /\ \A i \in DOMAIN ended.posts :
                                                   Rejected(ended.posts[i]))
     /\ ended.result = "upload" =>
           ended.caught = ErrorOf("post", Len(attempts),
                                  ended.posts[Len(attempts)].outcome)

\* C31 witness: the second file of a selection failed after its four
\* candidates were rejected, the first with a server message and the last
\* without one, and the page shows the fallback message of the last rejection
C31_Witness ==
  /\ uploadPage.ended.result = "upload"
  /\ uploadPage.ended.files = <<TRUE, TRUE>>
  /\ uploadPage.ended.file = 2
  /\ uploadPage.ended.posts[1].outcome = "errmsg"
  /\ uploadPage.ended.posts[4].outcome = "err"
  /\ uploadPage.ended.caught.message = ""
  /\ uploadPage.error = ErrUpload
  /\ ~uploadPage.viewLoading


\* C32: error and successMessage are never both non-empty: a success
\* confirmation is never displayed together with an error message.
C32_SuccessExcludesError == ~(Truthy(error) /\ successMessage # NoMessage)


\* C33: whenever no timer and no request is pending, the current history
\* entry's state equals {tab: activeTab, folder: selectedFolder}.
C33_HistoryMatchesNavigation ==
  Quiet => hist[cursor] = [tab |-> activeTab, folder |-> OrNull(selectedFolder)]


\* the handler in slot s is past its mutation request, which the server
\* carried out, and waits for its follow-up re-fetches
Refetching(s) ==
  /\ ops[s].pc = "reads"
  /\ \/ ops[s].kind = "delete"
     \/ ops[s].kind = "upload" /\ ops[s].posted # <<>>

\* C34: a step that answers a follow-up re-fetch of a delete or upload whose
\* mutation request succeeded never sets an error message that reports the
\* mutation as failed ('Delete failed...', 'Upload failed...' or the server's
\* message).
C34_RefetchFailureIsNotMutationFailure ==
  [][\A s \in Slots :
        (Refetching(s) /\ ops'[s] # ops[s] /\ error' # error) =>
           error' \notin {ErrDelete, ErrUpload, BackendMessage}]_vars


\* ---- the page reloaded within a session ----
MaxEntries == 2   \* entries of the tab's history when the page is loaded

\* the states the push effect gives to history entries
PushedStates ==
  {[tab |-> ALL_PHOTOS, folder |-> NoFolder], [tab |-> FOLDERS, folder |-> NoFolder]}
    \cup {[tab |-> FOLDERS, folder |-> name] : name \in FolderNames}

\* the history stacks an earlier load of the page leaves in the tab: such a
\* load starts as InitClient does, and its adjacent entries differ
PriorStacks ==
  {h \in UNION {[1..n -> PushedStates] : n \in 1..MaxEntries} :
      /\ h[1] = [tab |-> ALL_PHOTOS, folder |-> NoFolder]
      /\ \A i \in 1..(Len(h) - 1) : h[i] # h[i + 1]}

\* the page loaded on an entry of such a stack (a reload, or a return to the
\* page from another document): the component starts from its defaults and
\* the mount effect replaces the state of the current entry
InitReload ==
  /\ InitPage
  /\ \E h \in PriorStacks, c \in 1..MaxEntries :
        /\ c <= Len(h)
        /\ hist = replaceState(h, c, [tab |-> ALL_PHOTOS, folder |-> NoFolder])
        /\ cursor = c
  /\ srv = InitialStatuses
  /\ srvFolders = InitialFolders
  /\ responseData = ListAll(InitialStatuses)

SpecReload == InitReload /\ [][NextNavOk]_vars

\* C35: no two adjacent entries of the history stack carry the same
\* {tab, folder}.
C35_NoAdjacentDuplicates ==
  \A i \in 1..(Len(hist) - 1) : hist[i] # hist[i + 1]


\* C36: a folder name added through New Folder stays in folders after every
\* later step, in particular after every refresh of the folder list, even
\* when the server's folder list does not contain that name.
C36_CreatedFolderStays ==
  [][\A name \in {Trim(folderName) : folderName \in PromptInputs} :
        (name \in Range(folders) /\ name \notin Range(srvFolders)) =>
           name \in Range(folders')]_vars

====
